---- MODULE Spec2Model ----
(***************************************************************************)
(* Model of larcorealg/Geometry/GeometryCore.cxx (geo::GeometryCore) and   *)
(* of the inline part of geo::PlaneGeo that the file carries.              *)
(*                                                                         *)
(* The geometry hierarchy (cryostats > TPCs > planes > wires) is the state *)
(* fGeoData.  Every query of GeometryCore is one action: it draws its      *)
(* arguments from bounded sets, evaluates the operator translated from the *)
(* C++ function, and records the call in (op, args, ret) until the client  *)
(* has taken the result (Return).                                          *)
(*                                                                         *)
(* Beside the hierarchy, the state holds what loading a geometry and       *)
(* applying a channel mapping read and write: ROOT's gGeoManager, the      *)
(* stored file names, allViews, the active channel mapping and the mapping *)
(* being applied with the position reached in ApplyChannelMap, and the     *)
(* function-local statics of OpDetFromCryo.                                *)
(***************************************************************************)
EXTENDS Integers, Sequences, FiniteSets, TLC

VARIABLES fGeoData, op, args, ret,
          gGeoManager, fGDMLfile, fROOTfile,
          allViews, fChannelMapAlg, pChannelMap, pc,
          Loaded, LowestID, NCryo, geoStatics,
          nodes, names, current_path, examined,
          threads

vars == <<fGeoData, op, args, ret, gGeoManager, fGDMLfile, fROOTfile, allViews, fChannelMapAlg, pChannelMap, pc, Loaded, LowestID, NCryo, geoStatics, nodes, names, current_path, examined, threads>>

\* the description ROOT holds and the names of the files it was asked for
description == <<gGeoManager, fGDMLfile, fROOTfile>>

\* the channel mapping, the one being applied and what applying it updates
mapping == <<allViews, fChannelMapAlg, pChannelMap, pc>>

\* the statics of OpDetFromCryo (Loaded, LowestID, NCryo) and, in geoStatics,
\* those of the same names of OpDetGeoFromOpDet
statics == <<Loaded, LowestID, NCryo, geoStatics>>

\* the nodes of the description with their names, and a
\* ROOTGeoNodeForwardIterator on them with the nodes its loop has examined
traversal == <<nodes, names, current_path, examined>>

\* what the loading and the numbering of the geometry by one caller leave
\* alone: the description's nodes, and the threads that call OpDetFromCryo and
\* OpDetGeoFromOpDet at the same time
elsewhere == <<traversal, threads>>

\* all that a query of the geometry leaves alone
service == <<fGeoData, description, mapping, statics, elsewhere>>

----------------------------------------------------------------------------
(* Bounds of the explored inputs.                                          *)

\* largest cryostat number used in an identifier passed to a query
MaxCryoNo == 1
\* largest TPC number used in an identifier passed to a query
MaxTPCNo == 1
\* largest plane number used in an identifier passed to a query
MaxPlaneNo == 3
\* largest wire number used in an identifier passed to a query
MaxWireNo == 3

----------------------------------------------------------------------------
(* double: exact rationals <<n, d>> in lowest terms with d > 0, extended   *)
(* with the IEEE-754 special values +infinity <<1,0>>, -infinity <<-1,0>>  *)
(* and NaN <<0,0>>.  The sign of zero is not tracked.                      *)

RECURSIVE GCD(_, _)
GCD(a, b) == IF b = 0 THEN a ELSE GCD(b, a % b)

AbsInt(n) == IF n < 0 THEN -n ELSE n

SignInt(n) == IF n < 0 THEN -1 ELSE IF n > 0 THEN 1 ELSE 0

\* the double of value n/d (d may be 0: the result is then infinite or NaN)
Num(n, d) ==
  IF d = 0 THEN <<SignInt(n), 0>>
  ELSE LET g == GCD(AbsInt(n), AbsInt(d))
           s == SignInt(d)
       IN  <<(s * n) \div g, (s * d) \div g>>

Q(n) == <<n, 1>>

infinity == <<1, 0>>

NaN == <<0, 0>>

IsNaN(a) == a = NaN

IsInf(a) == a[2] = 0 /\ a[1] # 0

IsFinite(a) == a[2] # 0

RNeg(a) == <<-a[1], a[2]>>

RAbs(a) == <<AbsInt(a[1]), a[2]>>

\* the greatest common divisor of |a| and |b|, 1 when both are 0
Common(a, b) == IF a = 0 /\ b = 0 THEN 1 ELSE GCD(AbsInt(a), AbsInt(b))

RMul(a, b) ==
  LET g1 == Common(a[1], b[2])
      g2 == Common(b[1], a[2])
  IN  Num((a[1] \div g1) * (b[1] \div g2), (a[2] \div g2) * (b[2] \div g1))

\* 1/a: 1/0 is +infinity, 1/(+-infinity) is 0, 1/NaN is NaN
RInv(a) == IF a[2] = 0 THEN (IF a[1] = 0 THEN NaN ELSE Q(0)) ELSE Num(a[2], a[1])

\* a/b: x/0 is +-infinity by the sign of x, 0/0 is NaN
RDiv(a, b) == RMul(a, RInv(b))

RAdd(a, b) ==
  IF IsNaN(a) \/ IsNaN(b) THEN NaN
  ELSE IF IsInf(a) /\ IsInf(b) THEN (IF a = b THEN a ELSE NaN)
  ELSE IF IsInf(a) THEN a
  ELSE IF IsInf(b) THEN b
  ELSE LET g == Common(a[2], b[2])
       IN  Num(a[1] * (b[2] \div g) + b[1] * (a[2] \div g), (a[2] \div g) * b[2])

RSub(a, b) == RAdd(a, RNeg(b))

\* a < b; false when either is NaN
RLt(a, b) ==
  IF IsNaN(a) \/ IsNaN(b) THEN FALSE
  ELSE IF IsInf(a) /\ IsInf(b) THEN a[1] < b[1]
  ELSE IF IsInf(a) THEN a[1] < 0
  ELSE IF IsInf(b) THEN b[1] > 0
  ELSE LET g == Common(a[2], b[2])
       IN  a[1] * (b[2] \div g) < b[1] * (a[2] \div g)

RGt(a, b) == RLt(b, a)

\* a == b; false when either is NaN
REq(a, b) == ~IsNaN(a) /\ ~IsNaN(b) /\ a = b

\* a <= b; false when either is NaN
RLe(a, b) == RLt(a, b) \/ REq(a, b)

RMin(a, b) == IF RLt(b, a) THEN b ELSE a

RMax(a, b) == IF RLt(a, b) THEN b ELSE a

----------------------------------------------------------------------------
(* Identifiers (geo::CryostatID, TPCID, PlaneID, WireID).                  *)

\* TPCID::InvalidID, std::numeric_limits<unsigned int>::max(): a value no
\* index of the model takes
InvalidID == -1

CryostatID(c) == [isValid |-> TRUE, Cryostat |-> c]

TPCID(c, t) == [isValid |-> TRUE, Cryostat |-> c, TPC |-> t]

PlaneID(c, t, p) == [isValid |-> TRUE, Cryostat |-> c, TPC |-> t, Plane |-> p]

WireID(c, t, p, w) ==
  [isValid |-> TRUE, Cryostat |-> c, TPC |-> t, Plane |-> p, Wire |-> w]

markInvalid(id) == [id EXCEPT !.isValid = FALSE]

\* C++ containers are indexed from 0
At(s, i) == s[i + 1]

----------------------------------------------------------------------------
(* The hierarchy (GeometryData_t): a sequence of cryostats, each a         *)
(* sequence of TPCs, each a sequence of planes, each a sequence of wires.  *)
(* A wire is the segment between its two end points <<x, y, z>> [cm].      *)

Seg(x, y1, z1, y2, z2) ==
  [start |-> <<Q(x), y1, z1>>, end |-> <<Q(x), y2, z2>>]

\* a plane: its wires, the sine and cosine of phi_z and the wire pitch
PlaneOf(wires, sinPhiZ, cosPhiZ, pitch) ==
  [fWire |-> wires, fSinPhiZ |-> sinPhiZ, fCosPhiZ |-> cosPhiZ, fWirePitch |-> pitch]

\* wires along y at z = 0, 1, 2, 3 (they measure z)
PlaneAlongY(x) ==
  PlaneOf(<<Seg(x, Q(0), Q(0), Q(2), Q(0)), Seg(x, Q(0), Q(1), Q(2), Q(1)),
            Seg(x, Q(0), Q(2), Q(2), Q(2)), Seg(x, Q(0), Q(3), Q(2), Q(3))>>,
          Q(0), Q(1), Q(1))

\* wires along z at y = 0, 1, spanning z in [0, 2] (they measure y); the
\* second one is stored from high z to low z
PlaneAlongZ(x) ==
  PlaneOf(<<Seg(x, Q(0), Q(0), Q(0), Q(2)), Seg(x, Q(1), Q(2), Q(1), Q(0))>>,
          Q(1), Q(0), Q(1))

\* wires along (y, z) = (4/5, -3/5), 1 cm apart along (3/5, 4/5), each 2 cm
\* long; the third one is stored from high z to low z
PlaneDiagonal(x) ==
  PlaneOf(<<Seg(x, Num(9, 5), Num(2, 5), Num(1, 5), Num(8, 5)),
            Seg(x, Num(12, 5), Num(6, 5), Num(4, 5), Num(12, 5)),
            Seg(x, Num(7, 5), Num(16, 5), Q(3), Q(2))>>,
          Num(3, 5), Num(4, 5), Q(1))

\* wires along y at z = 1, 3, 5: a pitch of 2 cm
PlaneWide(x) ==
  PlaneOf(<<Seg(x, Q(0), Q(1), Q(2), Q(1)), Seg(x, Q(0), Q(3), Q(2), Q(3)),
            Seg(x, Q(0), Q(5), Q(2), Q(5))>>,
          Q(0), Q(1), Q(2))

\* wires along z at y = 0, 1/2, 1, spanning z in [0, 6]: a pitch of 0.5 cm
PlaneFine(x) ==
  PlaneOf(<<Seg(x, Q(0), Q(0), Q(0), Q(6)), Seg(x, Num(1, 2), Q(0), Num(1, 2), Q(6)),
            Seg(x, Q(1), Q(0), Q(1), Q(6))>>,
          Q(1), Q(0), Num(1, 2))

\* nearly vertical wires: z changes by 0.005 cm, 0 cm and 0.02 cm over 1 cm of y
PlaneNearVertical(x) ==
  PlaneOf(<<Seg(x, Q(1), Q(1), Q(0), Num(201, 200)),
            Seg(x, Q(1), Q(2), Q(0), Q(2)),
            Seg(x, Q(0), Num(151, 50), Q(1), Q(3)),
            Seg(x, Q(0), Q(4), Q(1), Num(801, 200))>>,
          Q(0), Q(1), Q(1))

\* wires along y at z = 1/2, 3/2: parallel to the wires of PlaneAlongY
PlaneAlongYShifted(x) ==
  PlaneOf(<<Seg(x, Q(0), Num(1, 2), Q(2), Num(1, 2)),
            Seg(x, Q(2), Num(3, 2), Q(0), Num(3, 2))>>,
          Q(0), Q(1), Q(1))

PlaneNoWires == PlaneOf(<<>>, Q(0), Q(1), Q(1))

TPCOf(planes) == [fPlanes |-> planes]

CryostatOf(tpcs, nOpDet) == [fTPCs |-> tpcs, fOpDets |-> nOpDet]

\* GeometryData_t: the cryostats and the auxiliary detectors (each stood for by
\* the number the sorters order it by)
GeoOf(cryostats, auxDets) == [cryostats |-> cryostats, auxDets |-> auxDets]

\* two cryostats: a 3-plane TPC and a 4-plane TPC; a cryostat with no TPC
GeoStd ==
  GeoOf(<<CryostatOf(<<TPCOf(<<PlaneAlongY(0), PlaneAlongZ(1), PlaneDiagonal(2)>>),
                       TPCOf(<<PlaneAlongY(0), PlaneAlongYShifted(1),
                               PlaneAlongZ(2), PlaneNoWires>>)>>, 2),
          CryostatOf(<<>>, 1)>>,
        <<2, 1>>)

\* one cryostat: a 2-plane TPC and a 3-plane TPC with nearly vertical wires
GeoSmall ==
  GeoOf(<<CryostatOf(<<TPCOf(<<PlaneNearVertical(0), PlaneAlongZ(1)>>),
                       TPCOf(<<PlaneAlongZ(0), PlaneNearVertical(1),
                               PlaneDiagonal(2)>>)>>, 3)>>,
        <<1, 3, 2>>)

\* a cryostat whose only TPC has no plane; a cryostat whose planes have no wire
GeoBare ==
  GeoOf(<<CryostatOf(<<TPCOf(<<>>)>>, 0),
          CryostatOf(<<TPCOf(<<PlaneNoWires>>), TPCOf(<<>>)>>, 2)>>,
        <<>>)

\* one cryostat with one 2-plane TPC whose planes have pitches 2 cm and 0.5 cm
GeoPitched ==
  GeoOf(<<CryostatOf(<<TPCOf(<<PlaneWide(0), PlaneFine(1)>>)>>, 1)>>, <<4>>)

Geometries == {GeoStd, GeoSmall, GeoBare, GeoPitched}

----------------------------------------------------------------------------
(* Access to the hierarchy.                                                *)

Ncryostats(geo) == Len(geo.cryostats)

HasCryostat(geo, id) == id.Cryostat < Ncryostats(geo)

\* *CryostatPtr(id), for an id with HasCryostat
Cryostat(geo, id) == At(geo.cryostats, id.Cryostat)

NTPC(cryo) == Len(cryo.fTPCs)

HasTPC(geo, id) == HasCryostat(geo, id) /\ id.TPC < NTPC(Cryostat(geo, id))

\* *TPCPtr(id), for an id with HasTPC
TPC(geo, id) == At(Cryostat(geo, id).fTPCs, id.TPC)

NplanesOf(tpc) == Len(tpc.fPlanes)

HasPlane(geo, id) == HasTPC(geo, id) /\ id.Plane < NplanesOf(TPC(geo, id))

\* *PlanePtr(id), for an id with HasPlane
Plane(geo, id) == At(TPC(geo, id).fPlanes, id.Plane)

\* PlaneGeo::Nwires
Nwires(plane) == Len(plane.fWire)

\* PlaneGeo::HasWire(unsigned int)
PlaneHasWire(plane, iwire) == iwire < Nwires(plane)

\* GeometryCore::HasWire(WireID): the plane exists and has the wire
HasWire(geo, wid) == HasPlane(geo, wid) /\ PlaneHasWire(Plane(geo, wid), wid.Wire)

\* GeometryCore::Nplanes(TPCID): 0 when the TPC does not exist
Nplanes(geo, id) == IF HasTPC(geo, id) THEN NplanesOf(TPC(geo, id)) ELSE 0

\* GeometryCore::Wire(WireID), for a wire ID with HasWire
Wire(geo, wid) == At(Plane(geo, wid).fWire, wid.Wire)

\* Segment_t GeometryCore::WireEndPoints(WireID): the end points as stored
WireEndPointsSegment(geo, wid) == Wire(geo, wid)

RECURSIVE MaxOf(_)
\* the largest of a sequence of counts, 0 for the empty sequence
MaxOf(s) ==
  IF s = <<>> THEN 0
  ELSE LET rest == MaxOf(Tail(s))
       IN  IF Head(s) > rest THEN Head(s) ELSE rest

\* TPCGeo::MaxWires
TPCMaxWires(tpc) ==
  MaxOf([i \in 1..Len(tpc.fPlanes) |-> Nwires(tpc.fPlanes[i])])

\* CryostatGeo::MaxPlanes
CryoMaxPlanes(cryo) ==
  MaxOf([i \in 1..Len(cryo.fTPCs) |-> NplanesOf(cryo.fTPCs[i])])

\* CryostatGeo::MaxWires
CryoMaxWires(cryo) ==
  MaxOf([i \in 1..Len(cryo.fTPCs) |-> TPCMaxWires(cryo.fTPCs[i])])

----------------------------------------------------------------------------
(* Two-wire intersection.                                                  *)

\* an exception leaving the function
Throw(category) == [threw |-> TRUE, category |-> category]

\* GeometryCore::IntersectLines: the crossing point (x, y) of the line through
\* A_start, A_end and the line through B_start, B_end, by the 2x2 linear
\* solve; no crossing (x and y untouched) when the determinant is zero
IntersectLines(Asx, Asy, Aex, Aey, Bsx, Bsy, Bex, Bey) ==
  LET denom == RSub(RMul(RSub(Asx, Aex), RSub(Bsy, Bey)),
                    RMul(RSub(Asy, Aey), RSub(Bsx, Bex)))
      A == RDiv(RSub(RMul(Asx, Aey), RMul(Asy, Aex)), denom)
      B == RDiv(RSub(RMul(Bsx, Bey), RMul(Bsy, Bex)), denom)
  IN  IF REq(denom, Q(0)) THEN [cross |-> FALSE]
      ELSE [cross |-> TRUE,
            x |-> RSub(RMul(RSub(Bsx, Bex), A), RMul(RSub(Asx, Aex), B)),
            y |-> RSub(RMul(RSub(Bsy, Bey), A), RMul(RSub(Asy, Aey), B))]

\* lo <= v <= hi
withinSorted(v, lo, hi) == RLe(lo, v) /\ RLe(v, hi)

\* lar::util::PointWithinSegments: (x, y) is inside the extents of both
\* segments, their end points included
PointWithinSegments(Asx, Asy, Aex, Aey, Bsx, Bsy, Bex, Bey, x, y) ==
  /\ withinSorted(x, RMin(Asx, Aex), RMax(Asx, Aex))
  /\ withinSorted(y, RMin(Asy, Aey), RMax(Asy, Aey))
  /\ withinSorted(x, RMin(Bsx, Bex), RMax(Bsx, Bex))
  /\ withinSorted(y, RMin(Bsy, Bey), RMax(Bsy, Bey))

Y(pt) == pt[2]

Z(pt) == pt[3]

\* GeometryCore::WireIDIntersectionCheck with the same-plane test left out
WireIDIntersectionCheck_NoPlaneTest(geo, wid1, wid2) ==
  IF wid1.Cryostat # wid2.Cryostat \/ wid1.TPC # wid2.TPC THEN FALSE
  ELSE IF ~HasWire(geo, wid1) THEN FALSE
  ELSE IF ~HasWire(geo, wid2) THEN FALSE
  ELSE TRUE

\* GeometryCore::WireIDIntersectionCheck
WireIDIntersectionCheck(geo, wid1, wid2) ==
  IF wid1.Cryostat # wid2.Cryostat \/ wid1.TPC # wid2.TPC THEN FALSE
  ELSE IF wid1.Plane = wid2.Plane THEN FALSE
  ELSE IF ~HasWire(geo, wid1) THEN FALSE
  ELSE IF ~HasWire(geo, wid2) THEN FALSE
  ELSE TRUE

\* the 2D GeometryCore::WireIDsIntersect with the out-of-bounds crossing
\* reported as infinity
WireIDsIntersect_ResetOutside(geo, wid1, wid2) ==
  IF ~WireIDIntersectionCheck(geo, wid1, wid2)
    THEN [threw |-> FALSE, result |-> FALSE,
          y |-> infinity, z |-> infinity, TPC |-> InvalidID]
  ELSE IF ~HasWire(geo, wid1) \/ ~HasWire(geo, wid2) THEN Throw("WireOutOfRange")
  ELSE
    LET w1 == WireEndPointsSegment(geo, wid1)
        w2 == WireEndPointsSegment(geo, wid2)
        x == IntersectLines(Y(w1.start), Z(w1.start), Y(w1.end), Z(w1.end),
                            Y(w2.start), Z(w2.start), Y(w2.end), Z(w2.end))
    IN  IF ~x.cross
          THEN [threw |-> FALSE, result |-> FALSE,
                y |-> infinity, z |-> infinity, TPC |-> InvalidID]
        ELSE
          LET within ==
                PointWithinSegments(Y(w1.start), Z(w1.start), Y(w1.end), Z(w1.end),
                                    Y(w2.start), Z(w2.start), Y(w2.end), Z(w2.end),
                                    x.x, x.y)
          IN  [threw |-> FALSE, result |-> within,
               y |-> IF within THEN x.x ELSE infinity,
               z |-> IF within THEN x.y ELSE infinity,
               TPC |-> IF within THEN wid1.TPC ELSE InvalidID]

\* the 2D GeometryCore::WireIDsIntersect with the result of IntersectLines
\* not tested
WireIDsIntersect_NoCrossTest(geo, wid1, wid2) ==
  IF ~WireIDIntersectionCheck(geo, wid1, wid2)
    THEN [threw |-> FALSE, result |-> FALSE,
          y |-> infinity, z |-> infinity, TPC |-> InvalidID]
  ELSE IF ~HasWire(geo, wid1) \/ ~HasWire(geo, wid2) THEN Throw("WireOutOfRange")
  ELSE
    LET w1 == WireEndPointsSegment(geo, wid1)
        w2 == WireEndPointsSegment(geo, wid2)
        x == IntersectLines(Y(w1.start), Z(w1.start), Y(w1.end), Z(w1.end),
                            Y(w2.start), Z(w2.start), Y(w2.end), Z(w2.end))
        \* the values left in y and z when IntersectLines does not set them
        xy == IF x.cross THEN <<x.x, x.y>> ELSE <<Y(w1.start), Z(w1.start)>>
        within ==
          PointWithinSegments(Y(w1.start), Z(w1.start), Y(w1.end), Z(w1.end),
                              Y(w2.start), Z(w2.start), Y(w2.end), Z(w2.end),
                              xy[1], xy[2])
    IN  [threw |-> FALSE, result |-> within, y |-> xy[1], z |-> xy[2],
         TPC |-> IF within THEN wid1.TPC ELSE InvalidID]

\* GeometryCore::WireIDsIntersect(WireID, WireID, WireIDIntersection&): the
\* returned value and the WireIDIntersection on return
WireIDsIntersect(geo, wid1, wid2) ==
  IF ~WireIDIntersectionCheck(geo, wid1, wid2)
    THEN [threw |-> FALSE, result |-> FALSE,
          y |-> infinity, z |-> infinity, TPC |-> InvalidID]
  \* WireEndPoints() throws for a wire that does not exist
  ELSE IF ~HasWire(geo, wid1) \/ ~HasWire(geo, wid2) THEN Throw("WireOutOfRange")
  ELSE
    LET w1 == WireEndPointsSegment(geo, wid1)
        w2 == WireEndPointsSegment(geo, wid2)
        x == IntersectLines(Y(w1.start), Z(w1.start), Y(w1.end), Z(w1.end),
                            Y(w2.start), Z(w2.start), Y(w2.end), Z(w2.end))
    IN  IF ~x.cross
          THEN [threw |-> FALSE, result |-> FALSE,
                y |-> infinity, z |-> infinity, TPC |-> InvalidID]
        ELSE
          LET within ==
                PointWithinSegments(Y(w1.start), Z(w1.start), Y(w1.end), Z(w1.end),
                                    Y(w2.start), Z(w2.start), Y(w2.end), Z(w2.end),
                                    x.x, x.y)
          IN  [threw |-> FALSE, result |-> within, y |-> x.x, z |-> x.y,
               TPC |-> IF within THEN wid1.TPC ELSE InvalidID]

VSub(a, b) == <<RSub(a[1], b[1]), RSub(a[2], b[2]), RSub(a[3], b[3])>>

VAdd(a, b) == <<RAdd(a[1], b[1]), RAdd(a[2], b[2]), RAdd(a[3], b[3])>>

VScale(k, a) == <<RMul(k, a[1]), RMul(k, a[2]), RMul(k, a[3])>>

Dot(a, b) == RAdd(RAdd(RMul(a[1], b[1]), RMul(a[2], b[2])), RMul(a[3], b[3]))

\* WireGeo::GetCenter
GetCenter(wire) == VScale(Num(1, 2), VAdd(wire.start, wire.end))

\* half of the vector from the start to the end of the wire: the wire
\* direction scaled by WireGeo::HalfL
HalfVector(wire) == VScale(Num(1, 2), VSub(wire.end, wire.start))

\* geo::WiresIntersectionAndOffsets: the point of the first wire's line that
\* is closest to the second wire's line, and its offsets from the two wire
\* centres; the offsets are kept in units of each wire's half length
WiresIntersectionAndOffsets(wire1, wire2) ==
  LET h1 == HalfVector(wire1)
      h2 == HalfVector(wire2)
      w == VSub(GetCenter(wire1), GetCenter(wire2))
      a == Dot(h1, h1)
      b == Dot(h1, h2)
      c == Dot(h2, h2)
      d == Dot(h1, w)
      e == Dot(h2, w)
      denom == RSub(RMul(a, c), RMul(b, b))
      s1 == RDiv(RSub(RMul(b, e), RMul(c, d)), denom)
      s2 == RDiv(RSub(RMul(a, e), RMul(b, d)), denom)
  IN  [point |-> VAdd(GetCenter(wire1), VScale(s1, h1)),
       offset1 |-> s1, offset2 |-> s2]

\* GeometryCore::WireIDsIntersect(WireID, WireID, Point_t&): the returned
\* value and the point on return
WireIDsIntersect3D(geo, wid1, wid2) ==
  IF ~WireIDIntersectionCheck(geo, wid1, wid2)
    THEN [threw |-> FALSE, result |-> FALSE,
          intersection |-> <<infinity, infinity, infinity>>]
  \* Wire() throws for a wire that does not exist
  ELSE IF ~HasWire(geo, wid1) \/ ~HasWire(geo, wid2) THEN Throw("WireOutOfRange")
  ELSE
    LET io == WiresIntersectionAndOffsets(Wire(geo, wid1), Wire(geo, wid2))
    IN  [threw |-> FALSE,
         result |-> RLe(RAbs(io.offset1), Q(1)) /\ RLe(RAbs(io.offset2), Q(1)),
         intersection |-> io.point]

----------------------------------------------------------------------------
(* Wire end points.                                                        *)

\* GeometryCore::WireEndPoints with the y ordering applied to any wire whose
\* z extent is below 0.05 cm
WireEndPoints_WideTieBreak(geo, wid) ==
  IF ~HasWire(geo, wid) THEN Throw("WireOutOfRange")
  ELSE
    LET result == WireEndPointsSegment(geo, wid)
        first == IF RLt(Z(result.end), Z(result.start))
                   THEN [start |-> result.end, end |-> result.start]
                   ELSE result
        second == IF /\ RLt(Y(first.end), Y(first.start))
                     /\ RLt(RAbs(RSub(Z(first.end), Z(first.start))), Num(1, 20))
                    THEN [start |-> first.end, end |-> first.start]
                    ELSE first
    IN  [threw |-> FALSE, xyzStart |-> second.start, xyzEnd |-> second.end]

\* GeometryCore::WireEndPoints(WireID, double* xyzStart, double* xyzEnd): the
\* two arrays on return
WireEndPoints(geo, wid) ==
  \* WireEndPoints(wireid) throws for a wire that does not exist
  IF ~HasWire(geo, wid) THEN Throw("WireOutOfRange")
  ELSE
    LET result == WireEndPointsSegment(geo, wid)
        \* ensure that "End" has higher z-value than "Start"
        first == IF RLt(Z(result.end), Z(result.start))
                   THEN [start |-> result.end, end |-> result.start]
                   ELSE result
        \* if wire is vertical ensure that "End" has higher y-value than "Start"
        second == IF /\ RLt(Y(first.end), Y(first.start))
                     /\ RLt(RAbs(RSub(Z(first.end), Z(first.start))), Num(1, 100))
                    THEN [start |-> first.end, end |-> first.start]
                    ELSE first
    IN  [threw |-> FALSE, xyzStart |-> second.start, xyzEnd |-> second.end]

----------------------------------------------------------------------------
(* Iteration bounds: the begin and end identifiers of a container.         *)

\* GetBeginTPCID(CryostatID): the first TPC of the cryostat; the validity of
\* the argument is copied
GetBeginTPCID(id) == [isValid |-> id.isValid, Cryostat |-> id.Cryostat, TPC |-> 0]

\* GetBeginPlaneID(CryostatID) and GetBeginPlaneID(TPCID)
GetBeginPlaneID(id) ==
  [isValid |-> id.isValid, Cryostat |-> id.Cryostat,
   TPC |-> IF "TPC" \in DOMAIN id THEN id.TPC ELSE 0, Plane |-> 0]

\* GetBeginWireID(CryostatID), GetBeginWireID(TPCID), GetBeginWireID(PlaneID)
GetBeginWireID(id) ==
  [isValid |-> id.isValid, Cryostat |-> id.Cryostat,
   TPC |-> IF "TPC" \in DOMAIN id THEN id.TPC ELSE 0,
   Plane |-> IF "Plane" \in DOMAIN id THEN id.Plane ELSE 0, Wire |-> 0]

\* GetNextID(TPCID): the TPC after id in the iteration over all TPCs; the
\* first TPC of the next cryostat after the last TPC of a cryostat, invalid
\* when there is no such cryostat
GetNextTPCID(geo, id) ==
  IF id.TPC + 1 < (IF HasCryostat(geo, id) THEN NTPC(Cryostat(geo, id)) ELSE 0)
    THEN [id EXCEPT !.TPC = id.TPC + 1]
    ELSE [isValid |-> id.isValid /\ id.Cryostat + 1 < Ncryostats(geo),
          Cryostat |-> id.Cryostat + 1, TPC |-> 0]

\* GetNextID(PlaneID): the plane after id in the iteration over all planes
GetNextPlaneID(geo, id) ==
  IF id.Plane + 1 < Nplanes(geo, id)
    THEN [id EXCEPT !.Plane = id.Plane + 1]
    ELSE LET tpc == GetNextTPCID(geo, [isValid |-> id.isValid,
                                       Cryostat |-> id.Cryostat, TPC |-> id.TPC])
         IN  [isValid |-> tpc.isValid, Cryostat |-> tpc.Cryostat,
              TPC |-> tpc.TPC, Plane |-> 0]

\* PlaneID{tpcid, p} and WireID{planeid, w}: the ID one level below, which
\* copies the validity of its parent
PlaneIDIn(tpcid, p) ==
  [isValid |-> tpcid.isValid, Cryostat |-> tpcid.Cryostat, TPC |-> tpcid.TPC,
   Plane |-> p]

WireIDIn(planeid, w) ==
  [isValid |-> planeid.isValid, Cryostat |-> planeid.Cryostat,
   TPC |-> planeid.TPC, Plane |-> planeid.Plane, Wire |-> w]

\* GeometryCore::GetEndTPCID(CryostatID)
GetEndTPCID(geo, id) ==
  IF HasCryostat(geo, id) /\ NTPC(Cryostat(geo, id)) > 0
    THEN TPCID(id.Cryostat + 1, 0)
    ELSE markInvalid(GetBeginTPCID(id))

\* GeometryCore::GetEndPlaneID(CryostatID)
GetEndPlaneID_Cryostat(geo, id) ==
  IF HasCryostat(geo, id) /\ CryoMaxPlanes(Cryostat(geo, id)) > 0
    THEN PlaneIDIn(GetEndTPCID(geo, id), 0)
    ELSE GetBeginPlaneID(id)

\* GeometryCore::GetEndPlaneID(TPCID)
GetEndPlaneID_TPC(geo, id) ==
  IF HasTPC(geo, id) /\ NplanesOf(TPC(geo, id)) > 0
    THEN PlaneIDIn(GetNextTPCID(geo, id), 0)
    ELSE markInvalid(GetBeginPlaneID(id))

\* GeometryCore::GetEndWireID(CryostatID)
GetEndWireID_Cryostat(geo, id) ==
  IF HasCryostat(geo, id) /\ CryoMaxWires(Cryostat(geo, id)) > 0
    THEN WireIDIn(GetEndPlaneID_Cryostat(geo, id), 0)
    ELSE markInvalid(GetBeginWireID(id))

\* GeometryCore::GetEndWireID(TPCID)
GetEndWireID_TPC(geo, id) ==
  IF HasTPC(geo, id) /\ TPCMaxWires(TPC(geo, id)) > 0
    THEN WireIDIn(GetEndPlaneID_TPC(geo, id), 0)
    ELSE markInvalid(GetBeginWireID(id))

\* GeometryCore::GetEndWireID(PlaneID)
GetEndWireID_Plane(geo, id) ==
  IF HasPlane(geo, id) /\ Nwires(Plane(geo, id)) > 0
    THEN WireIDIn(GetNextPlaneID(geo, id), 0)
    ELSE markInvalid(GetBeginWireID(id))

----------------------------------------------------------------------------
(* Wire and plane selection.                                               *)

MinInt(a, b) == IF b < a THEN b ELSE a

\* PlaneGeo::ClosestWireID(WireID_t) of the plane with ID planeid
ClosestWireID(geo, planeid, wireNo) ==
  WireIDIn(planeid, MinInt(wireNo, Nwires(Plane(geo, planeid))))

RECURSIVE ThirdPlaneLoop_KeepsLast(_, _, _, _, _)
\* the loop of ThirdPlane keeping the last plane that is neither of the two
ThirdPlaneLoop_KeepsLast(nPlanes, p1, p2, iPlane, target_plane) ==
  IF ~(iPlane < nPlanes) THEN [threw |-> FALSE, target_plane |-> target_plane]
  ELSE IF iPlane = p1 \/ iPlane = p2
    THEN ThirdPlaneLoop_KeepsLast(nPlanes, p1, p2, iPlane + 1, target_plane)
  ELSE ThirdPlaneLoop_KeepsLast(nPlanes, p1, p2, iPlane + 1, iPlane)

RECURSIVE ThirdPlaneLoop(_, _, _, _, _)
\* the for loop of GeometryCore::ThirdPlane from iPlane on: the target plane
\* at the end of the loop, or the exception thrown in it
ThirdPlaneLoop(nPlanes, p1, p2, iPlane, target_plane) ==
  IF ~(iPlane < nPlanes) THEN [threw |-> FALSE, target_plane |-> target_plane]
  ELSE IF iPlane = p1 \/ iPlane = p2
    THEN ThirdPlaneLoop(nPlanes, p1, p2, iPlane + 1, target_plane)
  ELSE IF target_plane # nPlanes
    THEN [threw |-> TRUE, category |-> "GeometryCore", what |-> "too many planes"]
  ELSE ThirdPlaneLoop(nPlanes, p1, p2, iPlane + 1, iPlane)

\* GeometryCore::ThirdPlane without the test of the number of planes
ThirdPlane_AnyPlaneCount(geo, pid1, pid2) ==
  LET nPlanes == Nplanes(geo, pid1)
      loop == ThirdPlaneLoop(nPlanes, pid1.Plane, pid2.Plane, 0, nPlanes)
  IN  IF loop.threw THEN loop
      ELSE IF loop.target_plane = nPlanes
        THEN [threw |-> TRUE, category |-> "GeometryCore",
              what |-> "can't find a plane"]
      ELSE [threw |-> FALSE, value |-> PlaneIDIn(pid1, loop.target_plane)]

\* GeometryCore::ThirdPlane
ThirdPlane(geo, pid1, pid2) ==
  LET nPlanes == Nplanes(geo, pid1)
  IN  IF nPlanes # 3
        THEN [threw |-> TRUE, category |-> "GeometryCore",
              what |-> "supports only TPCs with 3 planes"]
      ELSE
        LET loop == ThirdPlaneLoop(nPlanes, pid1.Plane, pid2.Plane, 0, nPlanes)
        IN  IF loop.threw THEN loop
            ELSE IF loop.target_plane = nPlanes
              THEN [threw |-> TRUE, category |-> "GeometryCore",
                    what |-> "can't find a plane"]
            ELSE [threw |-> FALSE, value |-> PlaneIDIn(pid1, loop.target_plane)]

----------------------------------------------------------------------------
(* Slope in the third plane.  An angle is kept as the pair of its cosine   *)
(* and sine, which is how a plane stores phi_z (fCosPhiZ, fSinPhiZ).       *)

Angle(c, s) == [cos |-> c, sin |-> s]

\* std::sin(a - b)
SinDiff(a, b) == RSub(RMul(a.sin, b.cos), RMul(a.cos, b.sin))

\* the slope below which ComputeThirdPlaneSlope does not resolve a slope
SmallSlope == Num(1, 1000)

\* the value returned for an infinite slope
SlopeSentinel == Q(999)

\* GeometryCore::ComputeThirdPlaneSlope with the early return for two small
\* slopes giving 0 instead of the threshold
ComputeThirdPlaneSlope_SmallIsZero(angle1, slope1, angle2, slope2, angle3) ==
  IF RLt(RAbs(slope1), SmallSlope) /\ RLt(RAbs(slope2), SmallSlope)
    THEN [threw |-> FALSE, value |-> Q(0), path |-> "small"]
  ELSE
    LET formula == RGt(RAbs(slope1), SmallSlope) /\ RGt(RAbs(slope2), SmallSlope)
        slope3 ==
          IF formula
            THEN RDiv(RSub(RMul(RInv(slope1), SinDiff(angle3, angle2)),
                           RMul(RInv(slope2), SinDiff(angle3, angle1))),
                      SinDiff(angle1, angle2))
            ELSE SmallSlope
    IN  [threw |-> FALSE,
         value |-> IF ~REq(slope3, Q(0)) THEN RInv(slope3) ELSE SlopeSentinel,
         path |-> IF formula THEN "formula" ELSE "default"]

\* GeometryCore::ComputeThirdPlaneSlope without the test for a zero inverse
\* slope
ComputeThirdPlaneSlope_NoZeroTest(angle1, slope1, angle2, slope2, angle3) ==
  IF RLt(RAbs(slope1), SmallSlope) /\ RLt(RAbs(slope2), SmallSlope)
    THEN [threw |-> FALSE, value |-> SmallSlope, path |-> "small"]
  ELSE
    LET formula == RGt(RAbs(slope1), SmallSlope) /\ RGt(RAbs(slope2), SmallSlope)
        slope3 ==
          IF formula
            THEN RDiv(RSub(RMul(RInv(slope1), SinDiff(angle3, angle2)),
                           RMul(RInv(slope2), SinDiff(angle3, angle1))),
                      SinDiff(angle1, angle2))
            ELSE SmallSlope
    IN  [threw |-> FALSE, value |-> RInv(slope3),
         path |-> IF formula THEN "formula" ELSE "default"]

\* GeometryCore::ComputeThirdPlaneSlope: the returned value, and which of
\* its three paths computed it ("small": the early return; "formula": the
\* trigonometric formula; "default": the initial value of slope3)
ComputeThirdPlaneSlope(angle1, slope1, angle2, slope2, angle3) ==
  \* Can't resolve very small slopes
  IF RLt(RAbs(slope1), SmallSlope) /\ RLt(RAbs(slope2), SmallSlope)
    THEN [threw |-> FALSE, value |-> SmallSlope, path |-> "small"]
  ELSE
    LET formula == RGt(RAbs(slope1), SmallSlope) /\ RGt(RAbs(slope2), SmallSlope)
        slope3 ==
          IF formula
            THEN RDiv(RSub(RMul(RInv(slope1), SinDiff(angle3, angle2)),
                           RMul(RInv(slope2), SinDiff(angle3, angle1))),
                      SinDiff(angle1, angle2))
            ELSE SmallSlope
    IN  [threw |-> FALSE,
         value |-> IF ~REq(slope3, Q(0)) THEN RInv(slope3) ELSE SlopeSentinel,
         path |-> IF formula THEN "formula" ELSE "default"]

----------------------------------------------------------------------------
(* The state machine: the queries a client issues on the loaded geometry.  *)

CryostatIDs == {CryostatID(c) : c \in 0..MaxCryoNo}

TPCIDs == {TPCID(c, t) : c \in 0..MaxCryoNo, t \in 0..MaxTPCNo}

PlaneIDs == {PlaneID(c, t, p) : c \in 0..MaxCryoNo, t \in 0..MaxTPCNo, p \in 0..MaxPlaneNo}

WireIDs ==
  {WireID(c, t, p, w) :
     c \in 0..MaxCryoNo, t \in 0..MaxTPCNo, p \in 0..MaxPlaneNo, w \in 0..MaxWireNo}

\* the detector descriptions there are, each named by its file
Descriptions == {"detector", "other"}

FileNames == {""} \cup Descriptions

\* a GeometryBuilder: what it extracts from each description
StandardBuilder == [d \in Descriptions |-> IF d = "detector" THEN GeoStd ELSE GeoSmall]

CoarseBuilder == [d \in Descriptions |-> IF d = "detector" THEN GeoBare ELSE GeoPitched]

Builders == {StandardBuilder, CoarseBuilder}

\* fGeoData = {}
NoGeometry == GeoOf(<<>>, <<>>)

\* gGeoManager when ROOT holds no description
NoGeoManager == "null"

\* a null pointer to a channel mapping; the data of a mapping not initialized
Null == [null |-> TRUE]

\* BuildGeometry(builder): the cryostats and the auxiliary detectors the
\* builder extracts from the top node of the description gGeoManager holds
BuildGeometry(builder, geoManager) ==
  [cryostats |-> builder[geoManager].cryostats, auxDets |-> builder[geoManager].auxDets]

----------------------------------------------------------------------------
(* The nodes of a description: TGeoNode objects in a finite tree.  A tree  *)
(* is the sequence of the parents of its nodes 1..Len(tree); node 1 is the *)
(* top node, its parent is nullptr, and the daughters of a node are in the *)
(* order of their numbers.                                                 *)

\* largest number of nodes of a description
MaxNodes == 5

\* the null TGeoNode pointer
nullptr == 0

\* the description of one node, the top node
SingleNode == <<nullptr>>

\* the trees of n nodes
TreesOf(n) ==
  {tree \in [1..n -> 0..(n - 1)] :
     /\ tree[1] = nullptr
     /\ \A node \in 2..n : tree[node] >= 1 /\ tree[node] < node}

\* the descriptions explored
Trees == UNION {TreesOf(n) : n \in 1..MaxNodes}

\* the nodes of a tree
NodesOf(tree) == 1..Len(tree)

\* the daughters of a node
DaughtersOf(tree, node) == {d \in NodesOf(tree) : tree[d] = node}

\* the names a node can have, as sequences of characters
NodeNames == {<<"a">>, <<"a", "b">>}

\* the nodes of a tree all with the same name
SameNames(tree) == [node \in NodesOf(tree) |-> <<"a">>]

\* the ways of naming the nodes of a tree
Namings(tree) == [NodesOf(tree) -> NodeNames]

\* TGeoNode::GetNdaughters()
GetNdaughters(tree, node) == Cardinality(DaughtersOf(tree, node))

\* TGeoNode::GetDaughter(i), i < GetNdaughters()
GetDaughter(tree, node, i) ==
  CHOOSE d \in DaughtersOf(tree, node) :
    Cardinality({e \in DaughtersOf(tree, node) : e < d}) = i

\* no thread is calling the GeometryCore
NoThreads == <<>>

\* the position of a GeometryCore that is not executing ApplyChannelMap
Idle == 0

\* a GeometryCore as constructed: no geometry is loaded, no description is
\* imported, no channel mapping is applied, OpDetFromCryo was never called
Init ==
  /\ fGeoData = NoGeometry
  /\ op = "none"
  /\ args = <<>>
  /\ ret = [threw |-> FALSE]
  /\ gGeoManager = NoGeoManager
  /\ fGDMLfile = ""
  /\ fROOTfile = ""
  /\ allViews = {}
  /\ fChannelMapAlg = Null
  /\ pChannelMap = Null
  /\ pc = Idle
  /\ Loaded = FALSE
  /\ LowestID = <<>>
  /\ NCryo = 0
  /\ geoStatics = [Loaded |-> FALSE, LowestID |-> <<>>, NCryo |-> 0]
  /\ nodes = SingleNode
  /\ names = SameNames(nodes)
  /\ current_path = <<>>
  /\ examined = <<>>
  /\ threads = NoThreads

\* LoadGeometryFile(gdmlfile, rootfile, builder, bForceReload) after its two
\* tests of the file names: the geometry is cleared, the description is
\* imported if none is held or the reload is forced, the hierarchy is built
\* from the description held, the file names are stored
LoadGeometryFileBody(geoManager, gdmlfile, rootfile, builder, bForceReload) ==
  LET imported == IF geoManager = NoGeoManager \/ bForceReload THEN rootfile ELSE geoManager
  IN  [gGeoManager |-> imported,
       fGeoData    |-> BuildGeometry(builder, imported),
       fGDMLfile   |-> gdmlfile,
       fROOTfile   |-> rootfile]

\* LoadGeometryFile clearing the geometry before it tests the file names
LoadGeometryFile_ClearsFirst ==
  /\ op = "none"
  /\ \E gdmlfile \in FileNames, rootfile \in FileNames, builder \in Builders,
        bForceReload \in BOOLEAN :
       /\ op' = "LoadGeometryFile"
       /\ args' = <<gdmlfile, rootfile, builder, bForceReload>>
       /\ IF gdmlfile = "" \/ rootfile = ""
            THEN /\ ret' = Throw("GeometryCore")
                 /\ fGeoData' = NoGeometry
                 /\ UNCHANGED description
            ELSE LET after == LoadGeometryFileBody(gGeoManager, gdmlfile, rootfile,
                                                   builder, bForceReload)
                 IN  /\ ret' = [threw |-> FALSE]
                     /\ fGeoData' = after.fGeoData
                     /\ gGeoManager' = after.gGeoManager
                     /\ fGDMLfile' = after.fGDMLfile
                     /\ fROOTfile' = after.fROOTfile
  /\ UNCHANGED <<mapping, statics, elsewhere>>

\* LoadGeometryFile: an empty file name is an error raised before anything
\* changes
LoadGeometryFile ==
  /\ op = "none"
  /\ \E gdmlfile \in FileNames, rootfile \in FileNames, builder \in Builders,
        bForceReload \in BOOLEAN :
       /\ op' = "LoadGeometryFile"
       /\ args' = <<gdmlfile, rootfile, builder, bForceReload>>
       /\ IF gdmlfile = "" \/ rootfile = ""
            THEN /\ ret' = Throw("GeometryCore")
                 /\ UNCHANGED <<fGeoData, description>>
            ELSE LET after == LoadGeometryFileBody(gGeoManager, gdmlfile, rootfile,
                                                   builder, bForceReload)
                 IN  /\ ret' = [threw |-> FALSE]
                     /\ fGeoData' = after.fGeoData
                     /\ gGeoManager' = after.gGeoManager
                     /\ fGDMLfile' = after.fGDMLfile
                     /\ fROOTfile' = after.fROOTfile
  /\ UNCHANGED <<mapping, statics, elsewhere>>

\* ClearGeometry(): fGeoData = {}
ClearGeometry ==
  /\ op = "none"
  /\ op' = "ClearGeometry"
  /\ args' = <<>>
  /\ ret' = [threw |-> FALSE]
  /\ fGeoData' = NoGeometry
  /\ UNCHANGED <<description, mapping, statics, elsewhere>>

\* the geometry service as the queries find it: as constructed, or after a
\* first LoadGeometryFile(file, file, builder)
InitBuilt ==
  /\ op = "none"
  /\ args = <<>>
  /\ ret = [threw |-> FALSE]
  /\ allViews = {}
  /\ fChannelMapAlg = Null
  /\ pChannelMap = Null
  /\ pc = Idle
  /\ Loaded = FALSE
  /\ LowestID = <<>>
  /\ NCryo = 0
  /\ geoStatics = [Loaded |-> FALSE, LowestID |-> <<>>, NCryo |-> 0]
  /\ nodes = SingleNode
  /\ names = SameNames(nodes)
  /\ current_path = <<>>
  /\ examined = <<>>
  /\ threads = NoThreads
  /\ \/ /\ fGeoData = NoGeometry
        /\ gGeoManager = NoGeoManager
        /\ fGDMLfile = ""
        /\ fROOTfile = ""
     \/ \E file \in Descriptions, builder \in Builders :
          LET after == LoadGeometryFileBody(NoGeoManager, file, file, builder, FALSE)
          IN  /\ fGeoData = after.fGeoData
              /\ gGeoManager = after.gGeoManager
              /\ fGDMLfile = after.fGDMLfile
              /\ fROOTfile = after.fROOTfile

CallWireIDsIntersect ==
  /\ op = "none"
  /\ \E wid1 \in WireIDs, wid2 \in WireIDs :
       /\ op' = "WireIDsIntersect"
       /\ args' = <<wid1, wid2>>
       /\ ret' = WireIDsIntersect(fGeoData, wid1, wid2)
       /\ UNCHANGED service

CallWireIDsIntersect3D ==
  /\ op = "none"
  /\ \E wid1 \in WireIDs, wid2 \in WireIDs :
       /\ op' = "WireIDsIntersect3D"
       /\ args' = <<wid1, wid2>>
       /\ ret' = WireIDsIntersect3D(fGeoData, wid1, wid2)
       /\ UNCHANGED service

CallWireEndPoints ==
  /\ op = "none"
  /\ \E wid \in WireIDs :
       /\ op' = "WireEndPoints"
       /\ args' = <<wid>>
       /\ ret' = WireEndPoints(fGeoData, wid)
       /\ UNCHANGED service

CallGetEndTPCID ==
  /\ op = "none"
  /\ \E id \in CryostatIDs :
       /\ op' = "GetEndTPCID"
       /\ args' = <<id>>
       /\ ret' = [threw |-> FALSE, value |-> GetEndTPCID(fGeoData, id)]
       /\ UNCHANGED service

CallGetEndPlaneID ==
  /\ op = "none"
  /\ \/ \E id \in CryostatIDs :
          /\ op' = "GetEndPlaneID(CryostatID)"
          /\ args' = <<id>>
          /\ ret' = [threw |-> FALSE, value |-> GetEndPlaneID_Cryostat(fGeoData, id)]
     \/ \E id \in TPCIDs :
          /\ op' = "GetEndPlaneID(TPCID)"
          /\ args' = <<id>>
          /\ ret' = [threw |-> FALSE, value |-> GetEndPlaneID_TPC(fGeoData, id)]
  /\ UNCHANGED service

CallGetEndWireID ==
  /\ op = "none"
  /\ \/ \E id \in CryostatIDs :
          /\ op' = "GetEndWireID(CryostatID)"
          /\ args' = <<id>>
          /\ ret' = [threw |-> FALSE, value |-> GetEndWireID_Cryostat(fGeoData, id)]
     \/ \E id \in TPCIDs :
          /\ op' = "GetEndWireID(TPCID)"
          /\ args' = <<id>>
          /\ ret' = [threw |-> FALSE, value |-> GetEndWireID_TPC(fGeoData, id)]
     \/ \E id \in PlaneIDs :
          /\ op' = "GetEndWireID(PlaneID)"
          /\ args' = <<id>>
          /\ ret' = [threw |-> FALSE, value |-> GetEndWireID_Plane(fGeoData, id)]
  /\ UNCHANGED service

\* PlaneGeo::ClosestWireID is a method of a plane: the plane exists
CallClosestWireID ==
  /\ op = "none"
  /\ \E id \in PlaneIDs, wireNo \in 0..(MaxWireNo + 2) :
       /\ HasPlane(fGeoData, id)
       /\ op' = "ClosestWireID"
       /\ args' = <<id, wireNo>>
       /\ ret' = [threw |-> FALSE, value |-> ClosestWireID(fGeoData, id, wireNo)]
       /\ UNCHANGED service

CallThirdPlane ==
  /\ op = "none"
  /\ \E pid1 \in PlaneIDs, pid2 \in PlaneIDs :
       /\ op' = "ThirdPlane"
       /\ args' = <<pid1, pid2>>
       /\ ret' = ThirdPlane(fGeoData, pid1, pid2)
       /\ UNCHANGED service

\* the angles phi_z of the planes: 0, 90 and 180 degrees and the angles of
\* the 3-4-5 triangle
Angles ==
  {Angle(Q(1), Q(0)), Angle(Q(0), Q(1)), Angle(Q(-1), Q(0)),
   Angle(Num(4, 5), Num(3, 5)), Angle(Num(3, 5), Num(4, 5)),
   Angle(Num(-4, 5), Num(3, 5))}

\* the slopes of a track: zero, below, at and above the threshold 0.001
Slopes ==
  {Q(0), Num(1, 2000), Num(-1, 2000), Num(1, 1000), Q(1), Q(-1), Q(2), Num(1, 2)}

CallComputeThirdPlaneSlope ==
  /\ op = "none"
  /\ \E angle1 \in Angles, angle2 \in Angles, angle3 \in Angles,
        slope1 \in Slopes, slope2 \in Slopes :
       /\ op' = "ComputeThirdPlaneSlope"
       /\ args' = <<angle1, slope1, angle2, slope2, angle3>>
       /\ ret' = ComputeThirdPlaneSlope(angle1, slope1, angle2, slope2, angle3)
       /\ UNCHANGED service

\* GeometryCore::ComputeThirdPlane_dTdW with each slope multiplied by the pitch
\* of its plane instead of divided
ComputeThirdPlane_dTdW_PitchMultiplies(angle1, pitch1, dTdW1, angle2, pitch2, dTdW2, angle_target, pitch_target) ==
  LET slope == ComputeThirdPlaneSlope(angle1, RMul(dTdW1, pitch1),
                                      angle2, RMul(dTdW2, pitch2), angle_target)
  IN  [threw |-> FALSE, value |-> RMul(pitch_target, slope.value)]

\* GeometryCore::ComputeThirdPlane_dTdW: the slopes are made homogeneous
\* with the pitch of their plane, and the result is converted back
ComputeThirdPlane_dTdW(angle1, pitch1, dTdW1, angle2, pitch2, dTdW2, angle_target, pitch_target) ==
  LET slope == ComputeThirdPlaneSlope(angle1, RDiv(dTdW1, pitch1),
                                      angle2, RDiv(dTdW2, pitch2), angle_target)
  IN  [threw |-> FALSE, value |-> RMul(pitch_target, slope.value)]

\* the angles given to ComputeThirdPlane_dTdW: 90 degrees and two angles of
\* the 3-4-5 triangle
AnglesOfPitched ==
  {Angle(Q(0), Q(1)), Angle(Num(4, 5), Num(3, 5)), Angle(Num(-4, 5), Num(3, 5))}

\* the wire pitches [cm] of the planes
Pitches == {Num(1, 2), Q(1), Q(2)}

\* dT/dW of a track: zero, about the threshold once divided by the pitch,
\* and large
dTdWs == {Q(0), Num(1, 1000), Q(1), Q(-1), Num(1, 2)}

CallComputeThirdPlane_dTdW ==
  /\ op = "none"
  /\ \E angle1 \in AnglesOfPitched, angle2 \in AnglesOfPitched,
        angle_target \in AnglesOfPitched,
        pitch1 \in Pitches, pitch2 \in Pitches, pitch_target \in Pitches,
        dTdW1 \in dTdWs, dTdW2 \in dTdWs :
       /\ op' = "ComputeThirdPlane_dTdW"
       /\ args' = <<angle1, pitch1, dTdW1, angle2, pitch2, dTdW2,
                    angle_target, pitch_target>>
       /\ ret' = ComputeThirdPlane_dTdW(angle1, pitch1, dTdW1, angle2, pitch2, dTdW2,
                                        angle_target, pitch_target)
       /\ UNCHANGED service

\* PlaneGeo::WirePtr returning the last wire for an index past the end
WirePtr_Clamped(plane, iwire) ==
  IF Nwires(plane) > 0
    THEN [null |-> FALSE, wire |-> At(plane.fWire, MinInt(iwire, Nwires(plane) - 1))]
    ELSE [null |-> TRUE]

\* PlaneGeo::WirePtr(unsigned int): the wire, or nullptr if it does not exist
WirePtr(plane, iwire) ==
  IF PlaneHasWire(plane, iwire)
    THEN [null |-> FALSE, wire |-> At(plane.fWire, iwire)]
    ELSE [null |-> TRUE]

\* PlaneGeo::Wire(unsigned int): the wire, or cet::exception of category
\* "WireOutOfRange" if there is no such wire
PlaneWire(plane, iwire) ==
  LET pWire == WirePtr(plane, iwire)
  IN  IF pWire.null THEN Throw("WireOutOfRange")
      ELSE [threw |-> FALSE, wire |-> pWire.wire]

\* the wire numbers a client asks a plane about
WireNumbers == 0..(MaxWireNo + 2)

\* HasWire(iwire), WirePtr(iwire) and Wire(iwire) of an existing plane
CallWireAccess ==
  /\ op = "none"
  /\ \E id \in PlaneIDs, iwire \in WireNumbers :
       /\ HasPlane(fGeoData, id)
       /\ args' = <<id, iwire>>
       /\ \/ /\ op' = "PlaneGeo::HasWire"
             /\ ret' = [threw |-> FALSE,
                        value |-> PlaneHasWire(Plane(fGeoData, id), iwire)]
          \/ /\ op' = "PlaneGeo::WirePtr"
             /\ ret' = [threw |-> FALSE] @@ WirePtr(Plane(fGeoData, id), iwire)
          \/ /\ op' = "PlaneGeo::Wire"
             /\ ret' = PlaneWire(Plane(fGeoData, id), iwire)
       /\ UNCHANGED service

\* the unit vector along x, the drift direction of the modelled planes
XDir == <<Q(1), Q(0), Q(0)>>

\* a frame (geo::Decomposer): a reference point and the main, secondary and
\* normal directions
FrameOf(origin, mainDir, secondaryDir, normalDir) ==
  [ReferencePoint |-> origin, MainDir |-> mainDir,
   SecondaryDir |-> secondaryDir, NormalDir |-> normalDir]

\* PlaneGeo::fDecompWire, as PlaneGeo::UpdateAfterSorting leaves it: the
\* reference point is the centre of the first wire, the main direction is
\* the direction of the wires, the secondary direction is the direction of
\* increasing wire number (sine and cosine of phi_z are its y and z), the
\* normal is the direction that makes <normal, main, secondary> positive
fDecompWire(plane) ==
  FrameOf(GetCenter(At(plane.fWire, 0)),
          <<Q(0), plane.fCosPhiZ, RNeg(plane.fSinPhiZ)>>,
          <<Q(0), plane.fSinPhiZ, plane.fCosPhiZ>>,
          XDir)

\* geo::Decomposer::PointSecondaryComponent
PointSecondaryComponent(frame, point) ==
  Dot(VSub(point, frame.ReferencePoint), frame.SecondaryDir)

\* PlaneGeo::PlaneCoordinate
PlaneCoordinate(plane, point) == PointSecondaryComponent(fDecompWire(plane), point)

\* PlaneGeo::WirePitch
WirePitch(plane) == plane.fWirePitch

\* PlaneGeo::WireCoordinate without the division by the wire pitch
WireCoordinate_InCentimetres(plane, point) == PlaneCoordinate(plane, point)

\* PlaneGeo::WireCoordinate
WireCoordinate(plane, point) == RDiv(PlaneCoordinate(plane, point), WirePitch(plane))

\* points of the world that a client asks about, on and off the planes
Points ==
  {<<x, y, z>> : x \in {Q(0), Num(3, 2)},
                 y \in {Q(-1), Num(1, 4), Q(2)},
                 z \in {Q(-2), Num(1, 2), Q(7)}}

\* the points asked about a plane: the centres of its wires as well
PointsOf(plane) == Points \cup {GetCenter(At(plane.fWire, k)) : k \in 0..(Nwires(plane) - 1)}

\* the planes that exist and have wires
PlanesWithWires ==
  {id \in PlaneIDs : HasPlane(fGeoData, id) /\ Nwires(Plane(fGeoData, id)) > 0}

\* PlaneCoordinate(point) and WireCoordinate(point) of a plane
CallWireCoordinate ==
  /\ op = "none"
  /\ \E id \in PlanesWithWires :
       \E point \in PointsOf(Plane(fGeoData, id)) :
         /\ args' = <<id, point>>
         /\ \/ /\ op' = "PlaneCoordinate"
               /\ ret' = [threw |-> FALSE,
                          value |-> PlaneCoordinate(Plane(fGeoData, id), point)]
            \/ /\ op' = "WireCoordinate"
               /\ ret' = [threw |-> FALSE,
                          value |-> WireCoordinate(Plane(fGeoData, id), point)]
         /\ UNCHANGED service

\* the integer nearest to a finite value, a value half way between two
\* integers going to the upper one
RoundToInt(a) == (2 * a[1] + a[2]) \div (2 * a[2])

\* geo::InvalidWireError: the nominal wire, which does not exist, and the
\* existing wire that is the closest to it
InvalidWireError(planeid, badWire, betterWire) ==
  [threw |-> TRUE, category |-> "Geometry",
   badWireID |-> WireIDIn(planeid, badWire),
   betterWireID |-> WireIDIn(planeid, betterWire)]

\* PlaneGeo::NearestWireID, for a plane with wires: WireCoordinate(pos)
\* rounded to the nearest integer; InvalidWireError when that wire does not
\* exist
PlaneNearestWireID(plane, planeid, pos) ==
  LET nearestWireNo == RoundToInt(WireCoordinate(plane, pos))
      wireNo == IF nearestWireNo < 0 THEN 0
                ELSE IF nearestWireNo >= Nwires(plane) THEN Nwires(plane) - 1
                ELSE nearestWireNo
  IN  IF nearestWireNo # wireNo
        THEN InvalidWireError(planeid, nearestWireNo, wireNo)
        ELSE [threw |-> FALSE, value |-> WireIDIn(planeid, nearestWireNo)]

\* GeometryCore::NearestWireID returning the closest existing wire without
\* a signal
NearestWireID_SilentlyClamped(geo, worldPos, planeid) ==
  LET found == PlaneNearestWireID(Plane(geo, planeid), planeid, worldPos)
  IN  IF found.threw THEN [threw |-> FALSE, value |-> found.betterWireID]
      ELSE found

\* GeometryCore::NearestWireID(worldPos, planeid)
NearestWireID(geo, worldPos, planeid) ==
  PlaneNearestWireID(Plane(geo, planeid), planeid, worldPos)

CallNearestWireID ==
  /\ op = "none"
  /\ \E id \in PlanesWithWires :
       \E point \in PointsOf(Plane(fGeoData, id)) :
         /\ op' = "NearestWireID"
         /\ args' = <<id, point>>
         /\ ret' = NearestWireID(fGeoData, point, id)
         /\ UNCHANGED service

\* the smallest and the largest of a non-empty set of finite values
MinOfSet(S) == CHOOSE a \in S : \A b \in S : RLe(a, b)

MaxOfSet(S) == CHOOSE a \in S : \A b \in S : RLe(b, a)

\* the centre of the box that bounds the wires of a plane
BoxCenter(plane) ==
  LET ends == {At(plane.fWire, k).start : k \in 0..(Nwires(plane) - 1)}
                \cup {At(plane.fWire, k).end : k \in 0..(Nwires(plane) - 1)}
      mid(i) == RMul(Num(1, 2),
                     RAdd(MinOfSet({e[i] : e \in ends}), MaxOfSet({e[i] : e \in ends})))
  IN  <<mid(1), mid(2), mid(3)>>

\* PlaneGeo::fDecompFrame, as PlaneGeo::UpdateAfterSorting leaves it: the
\* reference point is the centre of the box of the plane, the main direction
\* is the width of the box (along z), the secondary direction is its depth
\* (along y), the normal is their cross product (along -x)
fDecompFrame(plane) ==
  FrameOf(BoxCenter(plane),
          <<Q(0), Q(0), Q(1)>>, <<Q(0), Q(1), Q(0)>>, <<Q(-1), Q(0), Q(0)>>)

\* geo::Decomposer::DecomposePoint: the distance from the plane of the frame
\* and the projection on it
Decomposer_DecomposePoint(frame, point) ==
  LET v == VSub(point, frame.ReferencePoint)
  IN  [distance |-> Dot(v, frame.NormalDir),
       projection |-> <<Dot(v, frame.MainDir), Dot(v, frame.SecondaryDir)>>]

\* geo::Decomposer::ComposePoint
Decomposer_ComposePoint(frame, decomp) ==
  VAdd(frame.ReferencePoint,
       VAdd(VScale(decomp.distance, frame.NormalDir),
            VAdd(VScale(decomp.projection[1], frame.MainDir),
                 VScale(decomp.projection[2], frame.SecondaryDir))))

\* PlaneGeo::DecomposePoint
DecomposePoint(plane, point) == Decomposer_DecomposePoint(fDecompWire(plane), point)

\* PlaneGeo::ComposePoint(WireDecomposedVector_t) composing on the width/depth
\* frame
ComposePoint_OnWidthDepth(plane, decomp) ==
  Decomposer_ComposePoint(fDecompFrame(plane), decomp)

\* PlaneGeo::ComposePoint(WireDecomposedVector_t)
ComposePoint(plane, decomp) == Decomposer_ComposePoint(fDecompWire(plane), decomp)

\* PlaneGeo::DecomposePointWidthDepth
DecomposePointWidthDepth(plane, point) ==
  Decomposer_DecomposePoint(fDecompFrame(plane), point)

\* PlaneGeo::ComposePoint(WDDecomposedVector_t)
ComposePointWidthDepth(plane, decomp) ==
  Decomposer_ComposePoint(fDecompFrame(plane), decomp)

\* DecomposePoint(point) and DecomposePointWidthDepth(point) of a plane
CallDecomposePoint ==
  /\ op = "none"
  /\ \E id \in PlanesWithWires :
       \E point \in PointsOf(Plane(fGeoData, id)) :
         /\ args' = <<id, point>>
         /\ \/ /\ op' = "DecomposePoint"
               /\ ret' = [threw |-> FALSE,
                          value |-> DecomposePoint(Plane(fGeoData, id), point)]
            \/ /\ op' = "DecomposePointWidthDepth"
               /\ ret' = [threw |-> FALSE,
                          value |-> DecomposePointWidthDepth(Plane(fGeoData, id), point)]
         /\ UNCHANGED service

\* ComposePoint(decomp) of a plane, for the decomposition of a point on the
\* wire frame and on the width/depth frame
CallComposePoint ==
  /\ op = "none"
  /\ \E id \in PlanesWithWires :
       \E point \in PointsOf(Plane(fGeoData, id)) :
         LET plane == Plane(fGeoData, id)
         IN  /\ \/ /\ op' = "ComposePoint(WireDecomposedVector_t)"
                   /\ args' = <<id, DecomposePoint(plane, point)>>
                   /\ ret' = [threw |-> FALSE,
                              value |-> ComposePoint(plane, DecomposePoint(plane, point))]
                \/ /\ op' = "ComposePoint(WDDecomposedVector_t)"
                   /\ args' = <<id, DecomposePointWidthDepth(plane, point)>>
                   /\ ret' = [threw |-> FALSE,
                              value |-> ComposePointWidthDepth(
                                          plane, DecomposePointWidthDepth(plane, point))]
             /\ UNCHANGED service

\* geo::CryostatID operator<: the validity of the identifiers is not compared
CryostatID_Less(a, b) == a.Cryostat < b.Cryostat

\* geo::TPCID operator<
TPCID_Less(a, b) ==
  IF a.Cryostat # b.Cryostat THEN CryostatID_Less(a, b) ELSE a.TPC < b.TPC

\* geo::PlaneID operator<
PlaneID_Less(a, b) ==
  IF a.Cryostat # b.Cryostat \/ a.TPC # b.TPC THEN TPCID_Less(a, b)
  ELSE a.Plane < b.Plane

\* geo::WireID operator< comparing the wire number alone
WireID_Less_WireOnly(a, b) == a.Wire < b.Wire

\* geo::WireID operator<
WireID_Less(a, b) ==
  IF a.Cryostat # b.Cryostat \/ a.TPC # b.TPC \/ a.Plane # b.Plane
    THEN PlaneID_Less(a, b)
  ELSE a.Wire < b.Wire

\* the indices of the identifiers that are compared, at every level
ComparedIndices == 0..MaxCryoNo

\* identifiers with their validity flag set or not
EitherValidity(ids) == ids \cup {markInvalid(id) : id \in ids}

\* a < b for two identifiers of the same level
CallCompareIDs ==
  /\ op = "none"
  /\ \/ \E a \in EitherValidity(CryostatIDs), b \in EitherValidity(CryostatIDs) :
          /\ args' = <<a, b>>
          /\ ret' = [threw |-> FALSE, value |-> CryostatID_Less(a, b)]
     \/ \E c1 \in ComparedIndices, t1 \in ComparedIndices,
           c2 \in ComparedIndices, t2 \in ComparedIndices :
          \E a \in EitherValidity({TPCID(c1, t1)}), b \in EitherValidity({TPCID(c2, t2)}) :
            /\ args' = <<a, b>>
            /\ ret' = [threw |-> FALSE, value |-> TPCID_Less(a, b)]
     \/ \E c1 \in ComparedIndices, t1 \in ComparedIndices, p1 \in ComparedIndices,
           c2 \in ComparedIndices, t2 \in ComparedIndices, p2 \in ComparedIndices :
          /\ args' = <<PlaneID(c1, t1, p1), PlaneID(c2, t2, p2)>>
          /\ ret' = [threw |-> FALSE,
                     value |-> PlaneID_Less(PlaneID(c1, t1, p1), PlaneID(c2, t2, p2))]
     \/ \E c1 \in ComparedIndices, t1 \in ComparedIndices, p1 \in ComparedIndices,
           w1 \in ComparedIndices,
           c2 \in ComparedIndices, t2 \in ComparedIndices, p2 \in ComparedIndices,
           w2 \in ComparedIndices :
          /\ args' = <<WireID(c1, t1, p1, w1), WireID(c2, t2, p2, w2)>>
          /\ ret' = [threw |-> FALSE,
                     value |-> WireID_Less(WireID(c1, t1, p1, w1), WireID(c2, t2, p2, w2))]
  /\ op' = "operator<"
  /\ UNCHANGED service

----------------------------------------------------------------------------
(* Applying a channel mapping.                                             *)

\* the GeoObjectSorter strategies: each orders the auxiliary detectors by
\* their number, the cryostats by their number of optical detectors and the
\* TPCs by their number of planes, the one upwards and the other downwards
Sorters == {"upwards", "downwards"}

\* the key a sorter orders by: smaller keys come first
SortKey(sorter, n) == IF sorter = "upwards" THEN n ELSE 0 - n

\* <<key, object>> inserted into a sequence of them that is ordered by key
InsertByKey(pair, s) ==
  LET before == {i \in 1..Len(s) : s[i][1] <= pair[1]}
      n == Cardinality(before)
  IN  SubSeq(s, 1, n) \o <<pair>> \o SubSeq(s, n + 1, Len(s))

RECURSIVE SortByKey(_)
\* std::sort of a sequence of <<key, object>> by key
SortByKey(s) ==
  IF s = <<>> THEN <<>>
  ELSE InsertByKey(s[Len(s)], SortByKey(SubSeq(s, 1, Len(s) - 1)))

\* the objects of a sequence of <<key, object>>
Objects(s) == [i \in 1..Len(s) |-> s[i][2]]

\* sorter.SortAuxDets(AuxDets())
SortAuxDets(sorter, auxDets) ==
  Objects(SortByKey([i \in 1..Len(auxDets) |-> <<SortKey(sorter, auxDets[i]), auxDets[i]>>]))

\* sorter.SortCryostats(Cryostats())
SortCryostats(sorter, cryostats) ==
  Objects(SortByKey([i \in 1..Len(cryostats) |->
                       <<SortKey(sorter, cryostats[i].fOpDets), cryostats[i]>>]))

\* cryo.SortSubVolumes(sorter): the TPCs of the cryostat are sorted
SortSubVolumes(sorter, cryo) ==
  [cryo EXCEPT !.fTPCs =
     Objects(SortByKey([i \in 1..Len(cryo.fTPCs) |->
                          <<SortKey(sorter, Len(cryo.fTPCs[i].fPlanes)), cryo.fTPCs[i]>>]))]

\* SortGeometry leaving the hierarchy as the builder extracted it
SortGeometry_AsBuilt(geo, sorter) == geo

\* SortGeometry(sorter)
SortGeometry(geo, sorter) ==
  LET sorted == SortCryostats(sorter, geo.cryostats)
  IN  [auxDets   |-> SortAuxDets(sorter, geo.auxDets),
       cryostats |-> [c \in 1..Len(sorted) |-> SortSubVolumes(sorter, sorted[c])]]

\* PlaneGeo::View(): the coordinate the wires of the plane measure
View(plane) ==
  IF REq(plane.fSinPhiZ, Q(0)) THEN "kZ"
  ELSE IF REq(plane.fCosPhiZ, Q(0)) THEN "kY"
  ELSE IF RGt(RMul(plane.fSinPhiZ, plane.fCosPhiZ), Q(0)) THEN "kU"
  ELSE "kV"

\* tpc.Views()
Views(tpc) == {View(At(tpc.fPlanes, p)) : p \in 0..(Len(tpc.fPlanes) - 1)}

\* UpdateAfterSorting(): allViews is cleared and filled with the views of
\* every TPC (the identifiers are the positions in the hierarchy)
UpdateAfterSorting(geo) ==
  UNION {UNION {Views(geo.cryostats[c].fTPCs[t]) : t \in 1..Len(geo.cryostats[c].fTPCs)} :
           c \in 1..Len(geo.cryostats)}

\* a ChannelMapAlg with its sorter, before Initialize
ChannelMapAlg(sorter) == [Sorter |-> sorter, geodata |-> Null]

\* pChannelMap->Initialize(geodata): the mapping is computed from the hierarchy
\* as it is given
Initialize(channelMap, geodata) == [channelMap EXCEPT !.geodata = geodata]

\* ApplyChannelMap with Initialize as its first statement
ApplyChannelMap_InitializesFirst == <<"Initialize", "SortGeometry", "UpdateAfterSorting", "move">>

\* the statements of ApplyChannelMap(pChannelMap), in their order
ApplyChannelMap == <<"SortGeometry", "UpdateAfterSorting", "Initialize", "move">>

\* the statement ApplyChannelMap executes next
Statement == IF pc = Idle THEN "none" ELSE ApplyChannelMap[pc]

\* the position after the statement at pc
Advance == IF pc = Len(ApplyChannelMap) THEN Idle ELSE pc + 1

\* ApplyChannelMap(pChannelMap) is called with a new ChannelMapAlg
CallApplyChannelMap ==
  /\ op = "none"
  /\ pc = Idle
  /\ \E sorter \in Sorters :
       /\ pChannelMap' = ChannelMapAlg(sorter)
       /\ args' = <<sorter>>
  /\ op' = "ApplyChannelMap"
  /\ ret' = [threw |-> FALSE]
  /\ pc' = 1
  /\ UNCHANGED <<fGeoData, description, statics, elsewhere, allViews, fChannelMapAlg>>

\* SortGeometry(pChannelMap->Sorter());
Execute_SortGeometry ==
  /\ Statement = "SortGeometry"
  /\ fGeoData' = SortGeometry(fGeoData, pChannelMap.Sorter)
  /\ pc' = Advance
  /\ UNCHANGED <<op, args, ret, description, statics, elsewhere, allViews, fChannelMapAlg, pChannelMap>>

\* UpdateAfterSorting();
Execute_UpdateAfterSorting ==
  /\ Statement = "UpdateAfterSorting"
  /\ allViews' = UpdateAfterSorting(fGeoData)
  /\ pc' = Advance
  /\ UNCHANGED <<op, args, ret, description, statics, elsewhere, fGeoData, fChannelMapAlg, pChannelMap>>

\* pChannelMap->Initialize(fGeoData);
Execute_Initialize ==
  /\ Statement = "Initialize"
  /\ pChannelMap' = Initialize(pChannelMap, fGeoData)
  /\ pc' = Advance
  /\ UNCHANGED <<op, args, ret, description, statics, elsewhere, fGeoData, allViews, fChannelMapAlg>>

\* fChannelMapAlg = move(pChannelMap);
Execute_move ==
  /\ Statement = "move"
  /\ fChannelMapAlg' = pChannelMap
  /\ pChannelMap' = Null
  /\ pc' = Advance
  /\ UNCHANGED <<op, args, ret, description, statics, elsewhere, fGeoData, allViews>>

----------------------------------------------------------------------------
(* The numbering of the optical detectors.                                 *)

\* CryostatGeo::NOpDet()
NOpDet(cryo) == cryo.fOpDets

\* std::vector::resize(n) of a vector of unsigned int: the elements kept, the
\* new ones zero
Resize(v, n) == [i \in 1..n |-> IF i <= Len(v) THEN v[i] ELSE 0]

RECURSIVE LowestIDLoop(_, _, _, _)
\* for (cryo = 0; cryo != NCryo; ++cryo)
\*   LowestID.at(cryo + 1) = LowestID.at(cryo) + Cryostat(cid).NOpDet();
\* with nOpDet the value of Cryostat(cid).NOpDet()
LowestIDLoop(lowestID, cryo, nCryo, nOpDet) ==
  IF cryo = nCryo THEN lowestID
  ELSE LowestIDLoop([lowestID EXCEPT ![cryo + 2] = lowestID[cryo + 1] + nOpDet],
                    cryo + 1, nCryo, nOpDet)

\* the statics after the block that loads them, and whether Cryostat(cid)
\* raised its error in it
LoadStatics(geo, cid, lowestID) ==
  LET nCryo == Ncryostats(geo)
      resized == [Resize(lowestID, nCryo + 1) EXCEPT ![1] = 0]
  IN  IF nCryo # 0 /\ ~HasCryostat(geo, cid)
        THEN [threw |-> TRUE, Loaded |-> TRUE, NCryo |-> nCryo, LowestID |-> resized]
        ELSE [threw |-> FALSE, Loaded |-> TRUE, NCryo |-> nCryo,
              LowestID |-> IF nCryo = 0 THEN resized
                           ELSE LowestIDLoop(resized, 0, nCryo, NOpDet(Cryostat(geo, cid)))]

\* OpDetFromCryo(o, c) with the statics as it finds them: the result and the
\* statics as it leaves them
OpDetFromCryo(geo, o, c, loaded, lowestID, nCryo) ==
  LET cid == CryostatID(c)
      s == IF loaded
             THEN [threw |-> FALSE, Loaded |-> loaded, NCryo |-> nCryo, LowestID |-> lowestID]
             ELSE LoadStatics(geo, cid, lowestID)
      result ==
        IF s.threw THEN Throw("GeometryCore")
        ELSE IF c < s.NCryo
          THEN IF ~HasCryostat(geo, cid) THEN Throw("GeometryCore")
               ELSE IF o < NOpDet(Cryostat(geo, cid))
                 THEN [threw |-> FALSE, value |-> At(s.LowestID, c) + o]
                 ELSE Throw("OpDetCryoToOpID Error")
          ELSE Throw("OpDetCryoToOpID Error")
  IN  [ret |-> result, Loaded |-> s.Loaded, LowestID |-> s.LowestID, NCryo |-> s.NCryo]

\* the optical detector numbers and the cryostat numbers that are asked for
OpDetNumbers == 0..MaxWireNo

CryostatNumbers == 0..(MaxCryoNo + 1)

CallOpDetFromCryo ==
  /\ op = "none"
  /\ \E o \in OpDetNumbers, c \in CryostatNumbers :
       LET after == OpDetFromCryo(fGeoData, o, c, Loaded, LowestID, NCryo)
       IN  /\ args' = <<o, c>>
           /\ ret' = after.ret
           /\ Loaded' = after.Loaded
           /\ LowestID' = after.LowestID
           /\ NCryo' = after.NCryo
  /\ op' = "OpDetFromCryo"
  /\ UNCHANGED <<fGeoData, description, mapping, geoStatics, elsewhere>>

\* CryostatGeo::OpDet(o): the optical detector, named by its cryostat and its
\* number in it
OpDet(geo, c, o) ==
  IF o < NOpDet(Cryostat(geo, CryostatID(c)))
    THEN [threw |-> FALSE, value |-> [Cryostat |-> c, OpDet |-> o]]
    ELSE Throw("OpDetOutOfRange")

RECURSIVE LowestIDOfEachLoop(_, _, _, _)
\* for (cryo = 0; cryo != NCryo; ++cryo)
\*   LowestID[cryo + 1] = LowestID[cryo] + Cryostat(CryostatID(cryo)).NOpDet();
LowestIDOfEachLoop(geo, lowestID, cryo, nCryo) ==
  IF cryo = nCryo THEN lowestID
  ELSE LowestIDOfEachLoop(geo,
         [lowestID EXCEPT ![cryo + 2] =
            lowestID[cryo + 1] + NOpDet(Cryostat(geo, CryostatID(cryo)))],
         cryo + 1, nCryo)

RECURSIVE OpDetGeoSearch(_, _, _, _)
\* for (i = 0; i != NCryo; ++i): the optical detector of the first cryostat
\* whose range of numbers holds OpDet, or the error after the loop
OpDetGeoSearch(geo, OpDetNo, s, i) ==
  IF i = s.NCryo THEN Throw("OpID To OpDetCryo error")
  ELSE IF OpDetNo >= At(s.LowestID, i) /\ OpDetNo < At(s.LowestID, i + 1)
    THEN IF HasCryostat(geo, CryostatID(i))
           THEN OpDet(geo, i, OpDetNo - At(s.LowestID, i))
           ELSE Throw("GeometryCore")
  ELSE OpDetGeoSearch(geo, OpDetNo, s, i + 1)

\* OpDetGeoFromOpDet(OpDet) with its statics s as it finds them: the result
\* and the statics as it leaves them
OpDetGeoFromOpDet(geo, OpDetNo, s) ==
  LET nCryo == Ncryostats(geo)
      loaded == IF s.Loaded THEN s
                ELSE [Loaded |-> TRUE, NCryo |-> nCryo,
                      LowestID |-> LowestIDOfEachLoop(geo,
                                     [Resize(s.LowestID, nCryo + 1) EXCEPT ![1] = 0],
                                     0, nCryo)]
  IN  [ret |-> OpDetGeoSearch(geo, OpDetNo, loaded, 0), statics |-> loaded]

\* the numbers of optical detector that are asked for
OpDetIDs == 0..(MaxWireNo + 1)

\* OpDetGeoFromOpDet is called with a number, or with the number the call of
\* OpDetFromCryo(o, c) just before has returned
CallOpDetGeoFromOpDet ==
  /\ \/ /\ op = "none"
        /\ \E n \in OpDetIDs :
             LET after == OpDetGeoFromOpDet(fGeoData, n, geoStatics)
             IN  /\ args' = <<n>>
                 /\ ret' = after.ret
                 /\ geoStatics' = after.statics
        /\ op' = "OpDetGeoFromOpDet"
     \/ /\ op = "OpDetFromCryo"
        /\ ~ret.threw
        /\ LET after == OpDetGeoFromOpDet(fGeoData, ret.value, geoStatics)
           IN  /\ args' = <<ret.value, args[1], args[2]>>
               /\ ret' = after.ret
               /\ geoStatics' = after.statics
        /\ op' = "OpDetGeoFromOpDet(OpDetFromCryo)"
  /\ UNCHANGED <<fGeoData, description, mapping, Loaded, LowestID, NCryo, elsewhere>>

----------------------------------------------------------------------------
(* Slope and dT/dW in a third plane, on plane IDs.                         *)

\* CheckIndependentPlanesOnSameTPC(pid1, pid2, caller): the exception thrown,
\* with what its message names, or none
CheckIndependentPlanesOnSameTPC(pid1, pid2, caller) ==
  IF pid1.Cryostat # pid2.Cryostat \/ pid1.TPC # pid2.TPC
    THEN [threw |-> TRUE, category |-> "GeometryCore", caller |-> caller,
          what |-> "needs two planes on the same TPC", pids |-> <<pid1, pid2>>]
  ELSE IF pid1.Plane = pid2.Plane
    THEN [threw |-> TRUE, category |-> "GeometryCore", caller |-> caller,
          what |-> "needs two different planes", pids |-> <<pid1>>]
  ELSE [threw |-> FALSE]

\* PlaneGeo::PhiZ(): std::atan2(fSinPhiZ, fCosPhiZ)
PhiZ(plane) == Angle(plane.fCosPhiZ, plane.fSinPhiZ)

\* this->TPC(pid1) and TPC.Plane(..) of the three planes: the exception of the
\* first that does not exist, or none
PlanesOfTPC(geo, pid1, pid2, output_plane) ==
  IF ~HasTPC(geo, pid1) THEN Throw("GeometryCore")
  ELSE IF \E p \in {pid1.Plane, pid2.Plane, output_plane.Plane} :
            ~(p < NplanesOf(TPC(geo, pid1)))
    THEN Throw("PlaneOutOfRange")
  ELSE [threw |-> FALSE,
        planes |-> <<At(TPC(geo, pid1).fPlanes, pid1.Plane),
                     At(TPC(geo, pid1).fPlanes, pid2.Plane),
                     At(TPC(geo, pid1).fPlanes, output_plane.Plane)>>]

\* ThirdPlaneSlope without the check of the two planes
ThirdPlaneSlope_Unchecked(geo, pid1, slope1, pid2, slope2, output_plane) ==
  LET tpc == PlanesOfTPC(geo, pid1, pid2, output_plane)
  IN  IF tpc.threw THEN tpc
      ELSE [threw |-> FALSE,
            value |-> ComputeThirdPlaneSlope(PhiZ(tpc.planes[1]), slope1,
                                             PhiZ(tpc.planes[2]), slope2,
                                             PhiZ(tpc.planes[3])).value]

\* GeometryCore::ThirdPlaneSlope(pid1, slope1, pid2, slope2, output_plane)
ThirdPlaneSlope(geo, pid1, slope1, pid2, slope2, output_plane) ==
  LET check == CheckIndependentPlanesOnSameTPC(pid1, pid2, "ThirdPlaneSlope()")
      tpc == PlanesOfTPC(geo, pid1, pid2, output_plane)
  IN  IF check.threw THEN check
      ELSE IF tpc.threw THEN tpc
      ELSE [threw |-> FALSE,
            value |-> ComputeThirdPlaneSlope(PhiZ(tpc.planes[1]), slope1,
                                             PhiZ(tpc.planes[2]), slope2,
                                             PhiZ(tpc.planes[3])).value]

\* GeometryCore::ThirdPlane_dTdW(pid1, slope1, pid2, slope2, output_plane)
ThirdPlane_dTdW(geo, pid1, slope1, pid2, slope2, output_plane) ==
  LET check == CheckIndependentPlanesOnSameTPC(pid1, pid2, "ThirdPlane_dTdW()")
      tpc == PlanesOfTPC(geo, pid1, pid2, output_plane)
  IN  IF check.threw THEN check
      ELSE IF tpc.threw THEN tpc
      ELSE [threw |-> FALSE,
            value |-> ComputeThirdPlane_dTdW(
                        PhiZ(tpc.planes[1]), WirePitch(tpc.planes[1]), slope1,
                        PhiZ(tpc.planes[2]), WirePitch(tpc.planes[2]), slope2,
                        PhiZ(tpc.planes[3]), WirePitch(tpc.planes[3])).value]

\* the slopes given for the first plane
SlopesOfFirst == {Num(1, 2), Q(-1)}

\* the slope given for the second plane
SlopeOfSecond == Q(1)

\* the planes asked as output plane: the planes of the TPC of pid1 and those
\* of the TPC next to it
OutputPlanes(pid1) ==
  {PlaneID(pid1.Cryostat, t, p) :
     t \in {pid1.TPC, (pid1.TPC + 1) % (MaxTPCNo + 1)}, p \in 0..MaxPlaneNo}

CallThirdPlaneSlope ==
  /\ op = "none"
  /\ \E pid1 \in PlaneIDs, pid2 \in PlaneIDs, slope1 \in SlopesOfFirst :
       \E output_plane \in OutputPlanes(pid1) :
         /\ args' = <<pid1, slope1, pid2, SlopeOfSecond, output_plane>>
         /\ \/ /\ op' = "ThirdPlaneSlope()"
               /\ ret' = ThirdPlaneSlope(fGeoData, pid1, slope1, pid2, SlopeOfSecond,
                                         output_plane)
            \/ /\ op' = "ThirdPlane_dTdW()"
               /\ ret' = ThirdPlane_dTdW(fGeoData, pid1, slope1, pid2, SlopeOfSecond,
                                         output_plane)
  /\ UNCHANGED service

\* GeometryCore::IntersectionPoint(wid1, wid2, y, z)
IntersectionPoint(geo, wid1, wid2) ==
  LET widIntersect == WireIDsIntersect(geo, wid1, wid2)
  IN  IF widIntersect.threw THEN widIntersect
      ELSE [threw |-> FALSE, result |-> widIntersect.result,
            y |-> widIntersect.y, z |-> widIntersect.z]

CallIntersectionPoint ==
  /\ op = "none"
  /\ \E wid1 \in WireIDs, wid2 \in WireIDs :
       /\ args' = <<wid1, wid2>>
       /\ ret' = IntersectionPoint(fGeoData, wid1, wid2)
  /\ op' = "IntersectionPoint"
  /\ UNCHANGED service

\* GeometryCore::ChannelsIntersect(c1, c2, y, z), with chan1wires and chan2wires
\* the wires ChannelToWire gives for c1 and c2, and y, z as the caller passes
\* them
ChannelsIntersect(geo, chan1wires, chan2wires, y, z) ==
  IF chan1wires = <<>> THEN [threw |-> FALSE, result |-> FALSE, y |-> y, z |-> z]
  ELSE IF chan2wires = <<>> THEN [threw |-> FALSE, result |-> FALSE, y |-> y, z |-> z]
  ELSE IF Len(chan1wires) > 1 THEN [threw |-> FALSE, result |-> FALSE, y |-> y, z |-> z]
  ELSE IF Len(chan2wires) > 1 THEN [threw |-> FALSE, result |-> FALSE, y |-> y, z |-> z]
  ELSE
    LET widIntersect == WireIDsIntersect(geo, chan1wires[1], chan2wires[1])
    IN  IF widIntersect.threw THEN widIntersect
        ELSE [threw |-> FALSE, result |-> widIntersect.result,
              y |-> widIntersect.y, z |-> widIntersect.z]

\* what ChannelToWire gives for a channel: no wire, one wire of the first TPC,
\* or that wire and the one of the same number on the other TPC
ChannelWires ==
  {<<>>}
    \cup {<<WireID(0, 0, p, w)>> : p \in 0..MaxPlaneNo, w \in 0..MaxWireNo}
    \cup {<<WireID(0, 0, p, w), WireID(0, MaxTPCNo, p, w)>> :
            p \in 0..MaxPlaneNo, w \in 0..MaxWireNo}

\* the value of y and of z when ChannelsIntersect is called
Untouched == Q(0 - 1000)

CallChannelsIntersect ==
  /\ op = "none"
  /\ \E chan1wires \in ChannelWires, chan2wires \in ChannelWires :
       /\ args' = <<chan1wires, chan2wires>>
       /\ ret' = ChannelsIntersect(fGeoData, chan1wires, chan2wires, Untouched, Untouched)
  /\ op' = "ChannelsIntersect"
  /\ UNCHANGED service

----------------------------------------------------------------------------
(* ROOTGeoNodeForwardIterator: current_path is a sequence of NodeInfo_t    *)
(* {self, sibling}.                                                        *)

\* reach_deepest_descendant(): while the last node has daughters, push the
\* first of them
RECURSIVE reach_deepest_descendant(_, _)
reach_deepest_descendant(tree, path) ==
  LET descendent == path[Len(path)].self
  IN  IF GetNdaughters(tree, descendent) > 0
        THEN reach_deepest_descendant(tree,
               Append(path, [self |-> GetDaughter(tree, descendent, 0), sibling |-> 0]))
        ELSE path

\* ROOTGeoNodeForwardIterator(start_node): the path of the first node to visit
ROOTGeoNodeForwardIterator(tree, start_node) ==
  IF start_node # nullptr
    THEN reach_deepest_descendant(tree, <<[self |-> start_node, sibling |-> 0]>>)
    ELSE <<>>

\* operator*: the current node, nullptr once the path is empty
Dereference(path) == IF path = <<>> THEN nullptr ELSE path[Len(path)].self

\* operator++ that pops the current node without looking for its sibling
Increment_NoSibling(tree, path) ==
  IF path = <<>> THEN path ELSE SubSeq(path, 1, Len(path) - 1)

\* operator++: nothing on an empty path; the start node is popped; else the
\* next sibling of the current node and its deepest descendant, or, after the
\* last sibling, the parent
Increment(tree, path) ==
  IF path = <<>> THEN path
  ELSE IF Len(path) = 1 THEN SubSeq(path, 1, 0)
  ELSE LET current == path[Len(path)]
           parent == path[Len(path) - 1]
           sibling == current.sibling + 1
       IN  IF sibling < GetNdaughters(tree, parent.self)
             THEN reach_deepest_descendant(tree,
                    [path EXCEPT ![Len(path)] =
                       [self |-> GetDaughter(tree, parent.self, sibling),
                        sibling |-> sibling]])
             ELSE SubSeq(path, 1, Len(path) - 1)

\* get_path(): the nodes of the current path
get_path(path) == [i \in 1..Len(path) |-> path[i].self]

\* ROOTGeoNodeForwardIterator iNode{start_node}, as FindAllVolumes and
\* FindAllVolumePaths do with the top node
NewIterator ==
  /\ op = "none"
  /\ \E start_node \in NodesOf(nodes) \cup {nullptr} :
       /\ op' = "ROOTGeoNodeForwardIterator"
       /\ args' = <<start_node>>
       /\ current_path' = ROOTGeoNodeForwardIterator(nodes, start_node)
  /\ examined' = <<>>
  /\ ret' = [threw |-> FALSE]
  /\ UNCHANGED <<fGeoData, description, mapping, statics, nodes, names, threads>>

\* one turn of the loop of FindAllVolumes and FindAllVolumePaths:
\* while ((pCurrentNode = *iNode)) { collector(...); ++iNode; }
Examine ==
  /\ op = "ROOTGeoNodeForwardIterator"
  /\ Dereference(current_path) # nullptr
  /\ examined' = Append(examined, get_path(current_path))
  /\ current_path' = Increment(nodes, current_path)
  /\ UNCHANGED <<op, args, ret, fGeoData, description, mapping, statics, nodes, names, threads>>

\* ++iNode on an iterator that yields nullptr, and what it yields then
IncrementPastEnd ==
  /\ op = "ROOTGeoNodeForwardIterator"
  /\ Dereference(current_path) = nullptr
  /\ current_path' = Increment(nodes, current_path)
  /\ ret' = [threw |-> FALSE, value |-> Dereference(current_path')]
  /\ UNCHANGED <<op, args, examined, fGeoData, description, mapping, statics, nodes, names, threads>>

----------------------------------------------------------------------------
(* FindFirstVolume and FindDetectorEnclosure.                              *)

\* the character of a C string at a position from 1; the terminator after
\* its last character
CharAt(str, i) == IF i <= Len(str) THEN str[i] ELSE "\\0"

\* strncmp(s1, s2, n) == 0, for s1 of at least n characters
strncmp_equal(s1, s2, n) == \A i \in 1..n : CharAt(s1, i) = CharAt(s2, i)

RECURSIVE FindFirstVolume(_, _, _, _)

\* the loop over the daughters without its path.pop_back()
RECURSIVE ExploreDaughters_NoPop(_, _, _, _, _, _)
ExploreDaughters_NoPop(tree, nm, name, path, pCurrent, i) ==
  IF i >= GetNdaughters(tree, pCurrent) THEN [found |-> FALSE, path |-> path]
  ELSE LET below == FindFirstVolume(tree, nm, name,
                                    Append(path, GetDaughter(tree, pCurrent, i)))
       IN  IF below.found THEN below
           ELSE ExploreDaughters_NoPop(tree, nm, name, below.path, pCurrent, i + 1)

\* for (i = 0; i < nd; ++i) { path.push_back(GetNode(i));
\* if (FindFirstVolume(name, path)) return true; path.pop_back(); }
\* return false;
RECURSIVE ExploreDaughters(_, _, _, _, _, _)
ExploreDaughters(tree, nm, name, path, pCurrent, i) ==
  IF i >= GetNdaughters(tree, pCurrent) THEN [found |-> FALSE, path |-> path]
  ELSE LET below == FindFirstVolume(tree, nm, name,
                                    Append(path, GetDaughter(tree, pCurrent, i)))
       IN  IF below.found THEN below
           ELSE ExploreDaughters(tree, nm, name,
                                 SubSeq(below.path, 1, Len(below.path) - 1),
                                 pCurrent, i + 1)

\* FindFirstVolume(name, path), path not empty: what it returns and the path
\* it leaves
FindFirstVolume(tree, nm, name, path) ==
  LET pCurrent == path[Len(path)]
  IN  IF strncmp_equal(name, nm[pCurrent], Len(name))
        THEN [found |-> TRUE, path |-> path]
        ELSE ExploreDaughters(tree, nm, name, path, pCurrent, 0)

\* FindDetectorEnclosure(name): the path from the top node, cleared if
\* FindFirstVolume returns false
FindDetectorEnclosure(tree, nm, name) ==
  LET first == FindFirstVolume(tree, nm, name, <<1>>)
  IN  IF ~first.found THEN <<>> ELSE first.path

\* the names asked for
VolumeNames == {<<>>, <<"a">>, <<"a", "b">>, <<"b">>}

\* the nodes from the top node down to a node
RECURSIVE PathTo(_, _)
PathTo(tree, node) ==
  IF tree[node] = nullptr THEN <<node>> ELSE Append(PathTo(tree, tree[node]), node)

\* the paths FindFirstVolume is called with: a node alone, or the nodes from
\* the top node down to it
StartPaths(tree) == {<<node>> : node \in NodesOf(tree)} \cup {PathTo(tree, node) : node \in NodesOf(tree)}

CallFindFirstVolume ==
  /\ op = "none"
  /\ \E name \in VolumeNames, path \in StartPaths(nodes) :
       LET first == FindFirstVolume(nodes, names, name, path)
       IN  /\ op' = "FindFirstVolume"
           /\ args' = <<name, path>>
           /\ ret' = [threw |-> FALSE, value |-> first.found, path |-> first.path]
  /\ UNCHANGED service

CallFindDetectorEnclosure ==
  /\ op = "none"
  /\ \E name \in VolumeNames :
       /\ op' = "FindDetectorEnclosure"
       /\ args' = <<name>>
       /\ ret' = [threw |-> FALSE, value |-> FindDetectorEnclosure(nodes, names, name)]
  /\ UNCHANGED service

----------------------------------------------------------------------------
(* OpDetFromCryo and OpDetGeoFromOpDet called from several threads: each   *)
(* thread executes the statements of its call one at a time, on the        *)
(* statics all the threads share.  No statement of the two functions       *)
(* takes a lock or orders its accesses to the statics.                     *)

\* number of threads that call the GeometryCore
NThreads == 2

Threads == 1..NThreads

\* a thread that is in no call
IdleThread == [pc |-> "idle", fn |-> "none", a |-> <<>>, skipped |-> FALSE, i |-> 0, ret |-> [threw |-> FALSE]]

\* the calls the threads make: OpDetFromCryo(o, c) and OpDetGeoFromOpDet(OpDet)
ThreadCalls ==
  {<<"OpDetFromCryo", <<o, c>>>> : o \in 0..1, c \in 0..1} \cup {<<"OpDetGeoFromOpDet", <<n>>>> : n \in {0, 2}}

\* the statics of the function a thread is in
StaticsOf(fn) ==
  IF fn = "OpDetFromCryo" THEN [Loaded |-> Loaded, LowestID |-> LowestID, NCryo |-> NCryo]
  ELSE geoStatics

\* the statics of the function a thread is in become s
SetStatics(fn, s) ==
  IF fn = "OpDetFromCryo"
    THEN /\ Loaded' = s.Loaded
         /\ LowestID' = s.LowestID
         /\ NCryo' = s.NCryo
         /\ UNCHANGED geoStatics
    ELSE /\ geoStatics' = s
         /\ UNCHANGED <<Loaded, LowestID, NCryo>>

\* what no statement of a thread changes
untouched == <<fGeoData, op, args, ret, description, mapping, traversal>>

\* the thread goes to a statement
Goto(t, label) == threads' = [threads EXCEPT ![t].pc = label]

\* the thread leaves its call with a result
Leave(t, result) == threads' = [threads EXCEPT ![t].pc = "done", ![t].ret = result]

\* an element read without a check of the index: the element, or, past the
\* end of the vector, any value
Indeterminate == {0, 3}

ReadUnchecked(v, index) == IF index < Len(v) THEN {v[index + 1]} ELSE Indeterminate

\* a thread enters OpDetFromCryo(o, c) or OpDetGeoFromOpDet(OpDet)
ThreadCall ==
  \E t \in Threads, call \in ThreadCalls :
    /\ threads[t].pc = "idle"
    /\ threads' = [threads EXCEPT ![t] = [IdleThread EXCEPT !.pc = "test", !.fn = call[1], !.a = call[2]]]
    /\ UNCHANGED <<untouched, statics>>

\* if (Loaded == false)
TestLoaded ==
  \E t \in Threads :
    /\ threads[t].pc = "test"
    /\ IF StaticsOf(threads[t].fn).Loaded = FALSE
         THEN Goto(t, "Loaded = true")
         ELSE threads' = [threads EXCEPT ![t].pc = "lookup", ![t].skipped = TRUE]
    /\ UNCHANGED <<untouched, statics>>

\* Loaded = true;
SetLoaded ==
  \E t \in Threads :
    /\ threads[t].pc = "Loaded = true"
    /\ SetStatics(threads[t].fn, [StaticsOf(threads[t].fn) EXCEPT !.Loaded = TRUE])
    /\ Goto(t, "NCryo = Ncryostats()")
    /\ UNCHANGED untouched

\* NCryo = Ncryostats();
SetNCryo ==
  \E t \in Threads :
    /\ threads[t].pc = "NCryo = Ncryostats()"
    /\ SetStatics(threads[t].fn, [StaticsOf(threads[t].fn) EXCEPT !.NCryo = Ncryostats(fGeoData)])
    /\ Goto(t, "LowestID.resize")
    /\ UNCHANGED untouched

\* LowestID.resize(NCryo + 1); LowestID.at(0) = 0;
ResizeLowestID ==
  \E t \in Threads :
    /\ threads[t].pc = "LowestID.resize"
    /\ LET s == StaticsOf(threads[t].fn)
       IN  SetStatics(threads[t].fn,
                      [s EXCEPT !.LowestID = [Resize(s.LowestID, s.NCryo + 1) EXCEPT ![1] = 0]])
    /\ threads' = [threads EXCEPT ![t].pc = "fill", ![t].i = 0]
    /\ UNCHANGED untouched

\* one turn of for (cryo = 0; cryo != NCryo; ++cryo): in OpDetFromCryo
\* LowestID.at(cryo + 1) = LowestID.at(cryo) + Cryostat(cid).NOpDet(), in
\* OpDetGeoFromOpDet the same with Cryostat(CryostatID(cryo))
FillLowestID ==
  \E t \in Threads :
    /\ threads[t].pc = "fill"
    /\ LET fn == threads[t].fn
           s == StaticsOf(fn)
           cryo == threads[t].i
           cid == IF fn = "OpDetFromCryo" THEN CryostatID(threads[t].a[2]) ELSE CryostatID(cryo)
       IN  IF cryo = s.NCryo
             THEN /\ Goto(t, "lookup")
                  /\ UNCHANGED statics
           ELSE IF ~HasCryostat(fGeoData, cid)
             THEN /\ Leave(t, Throw("GeometryCore"))
                  /\ UNCHANGED statics
           ELSE /\ SetStatics(fn, [s EXCEPT !.LowestID[cryo + 2] =
                                      s.LowestID[cryo + 1] + NOpDet(Cryostat(fGeoData, cid))])
                /\ threads' = [threads EXCEPT ![t].i = cryo + 1]
    /\ UNCHANGED untouched

\* OpDetFromCryo: if ((c < NCryo) && (o < Cryostat(cid).NOpDet()))
\* return LowestID.at(c) + o; throw ...
LookupLowestID ==
  \E t \in Threads :
    /\ threads[t].pc = "lookup"
    /\ threads[t].fn = "OpDetFromCryo"
    /\ LET o == threads[t].a[1]
           c == threads[t].a[2]
       IN  IF c < NCryo /\ HasCryostat(fGeoData, CryostatID(c))
                /\ o < NOpDet(Cryostat(fGeoData, CryostatID(c)))
             THEN IF c < Len(LowestID)
                    THEN Leave(t, [threw |-> FALSE, value |-> At(LowestID, c) + o])
                    ELSE Leave(t, Throw("std::out_of_range"))
           ELSE IF c < NCryo /\ ~HasCryostat(fGeoData, CryostatID(c))
             THEN Leave(t, Throw("GeometryCore"))
           ELSE Leave(t, Throw("OpDetCryoToOpID Error"))
    /\ UNCHANGED <<untouched, statics>>

\* OpDetGeoFromOpDet: one turn of for (i = 0; i != NCryo; ++i)
\* if ((OpDet >= LowestID[i]) && (OpDet < LowestID[i + 1])) return ...;
\* and the throw after the loop
SearchLowestID ==
  \E t \in Threads :
    /\ threads[t].pc = "lookup"
    /\ threads[t].fn = "OpDetGeoFromOpDet"
    /\ LET OpDetNo == threads[t].a[1]
           i == threads[t].i
       IN  IF i = geoStatics.NCryo
             THEN Leave(t, Throw("OpID To OpDetCryo error"))
             ELSE \E low \in ReadUnchecked(geoStatics.LowestID, i),
                     high \in ReadUnchecked(geoStatics.LowestID, i + 1) :
                    IF OpDetNo >= low /\ OpDetNo < high
                      THEN IF HasCryostat(fGeoData, CryostatID(i))
                             THEN Leave(t, OpDet(fGeoData, i, OpDetNo - low))
                             ELSE Leave(t, Throw("GeometryCore"))
                      ELSE threads' = [threads EXCEPT ![t].i = i + 1]
    /\ UNCHANGED <<untouched, statics>>

\* the caller in the thread takes the result
ThreadReturn ==
  \E t \in Threads :
    /\ threads[t].pc = "done"
    /\ threads' = [threads EXCEPT ![t] = IdleThread]
    /\ UNCHANGED <<untouched, statics>>

\* the client takes the result; the next query can be issued
Return ==
  /\ op # "none"
  /\ pc = Idle
  /\ op = "ROOTGeoNodeForwardIterator" => Dereference(current_path) = nullptr
  /\ op' = "none"
  /\ args' = <<>>
  /\ ret' = [threw |-> FALSE]
  /\ UNCHANGED service

Next ==
  \/ CallWireIDsIntersect
  \/ CallWireIDsIntersect3D
  \/ CallWireEndPoints
  \/ CallGetEndTPCID
  \/ CallGetEndPlaneID
  \/ CallGetEndWireID
  \/ CallClosestWireID
  \/ CallThirdPlane
  \/ CallComputeThirdPlaneSlope
  \/ CallComputeThirdPlane_dTdW
  \/ CallWireAccess
  \/ CallWireCoordinate
  \/ CallNearestWireID
  \/ CallDecomposePoint
  \/ CallComposePoint
  \/ CallCompareIDs
  \/ Return

\* the queries of a geometry that was loaded
Spec == InitBuilt /\ [][Next]_vars

\* the queries of two planes, two wires or two channels that go through the
\* checks of the plane IDs and through WireIDsIntersect
NextCrossing ==
  \/ CallThirdPlaneSlope
  \/ CallIntersectionPoint
  \/ CallChannelsIntersect
  \/ Return

SpecCrossing == InitBuilt /\ [][NextCrossing]_vars

\* loading a geometry, clearing it, applying a channel mapping to it
NextService ==
  \/ LoadGeometryFile
  \/ ClearGeometry
  \/ CallApplyChannelMap
  \/ Execute_SortGeometry
  \/ Execute_UpdateAfterSorting
  \/ Execute_Initialize
  \/ Execute_move
  \/ Return

SpecService == Init /\ [][NextService]_vars

\* loading a geometry, clearing it, numbering its optical detectors
NextOpDet ==
  \/ LoadGeometryFile
  \/ ClearGeometry
  \/ CallOpDetFromCryo
  \/ CallOpDetGeoFromOpDet
  \/ Return

SpecOpDet == Init /\ [][NextOpDet]_vars

\* a description of any of the trees, in a GeometryCore as constructed
InitTree ==
  /\ fGeoData = NoGeometry
  /\ op = "none"
  /\ args = <<>>
  /\ ret = [threw |-> FALSE]
  /\ gGeoManager \in Descriptions
  /\ fGDMLfile = gGeoManager
  /\ fROOTfile = gGeoManager
  /\ allViews = {}
  /\ fChannelMapAlg = Null
  /\ pChannelMap = Null
  /\ pc = Idle
  /\ Loaded = FALSE
  /\ LowestID = <<>>
  /\ NCryo = 0
  /\ geoStatics = [Loaded |-> FALSE, LowestID |-> <<>>, NCryo |-> 0]
  /\ nodes \in Trees
  /\ names = SameNames(nodes)
  /\ current_path = <<>>
  /\ examined = <<>>
  /\ threads = NoThreads

\* a description of any of the trees, its nodes named in any way
InitNamedTree ==
  /\ fGeoData = NoGeometry
  /\ op = "none"
  /\ args = <<>>
  /\ ret = [threw |-> FALSE]
  /\ gGeoManager \in Descriptions
  /\ fGDMLfile = gGeoManager
  /\ fROOTfile = gGeoManager
  /\ allViews = {}
  /\ fChannelMapAlg = Null
  /\ pChannelMap = Null
  /\ pc = Idle
  /\ Loaded = FALSE
  /\ LowestID = <<>>
  /\ NCryo = 0
  /\ geoStatics = [Loaded |-> FALSE, LowestID |-> <<>>, NCryo |-> 0]
  /\ nodes \in Trees
  /\ names \in Namings(nodes)
  /\ current_path = <<>>
  /\ examined = <<>>
  /\ threads = NoThreads

\* looking for a volume by its name
NextFind ==
  \/ CallFindFirstVolume
  \/ CallFindDetectorEnclosure
  \/ Return

SpecFind == InitNamedTree /\ [][NextFind]_vars

\* a hierarchy built and sorted, the statics of the two functions as the
\* program starts with them, and threads that are in no call
InitThreads ==
  /\ \E builder \in Builders, file \in Descriptions :
       /\ fGeoData = BuildGeometry(builder, file)
       /\ gGeoManager = file
       /\ fGDMLfile = file
       /\ fROOTfile = file
  /\ op = "none"
  /\ args = <<>>
  /\ ret = [threw |-> FALSE]
  /\ allViews = {}
  /\ fChannelMapAlg = Null
  /\ pChannelMap = Null
  /\ pc = Idle
  /\ Loaded = FALSE
  /\ LowestID = <<>>
  /\ NCryo = 0
  /\ geoStatics = [Loaded |-> FALSE, LowestID |-> <<>>, NCryo |-> 0]
  /\ nodes = SingleNode
  /\ names = SameNames(nodes)
  /\ current_path = <<>>
  /\ examined = <<>>
  /\ threads = [t \in Threads |-> IdleThread]

\* the statements of the threads, in any order
NextThreads ==
  \/ ThreadCall
  \/ TestLoaded
  \/ SetLoaded
  \/ SetNCryo
  \/ ResizeLowestID
  \/ FillLowestID
  \/ LookupLowestID
  \/ SearchLowestID
  \/ ThreadReturn

SpecThreads == InitThreads /\ [][NextThreads]_vars

\* visiting the nodes of the description with a ROOTGeoNodeForwardIterator
NextIterator ==
  \/ NewIterator
  \/ Examine
  \/ IncrementPastEnd
  \/ Return

\* the loop of FindAllVolumes is not abandoned before *iNode is null
SpecIterator == InitTree /\ [][NextIterator]_vars /\ WF_vars(Examine)

----------------------------------------------------------------------------
(* Properties of the two-wire intersection.                                *)

\* the wire ID names a wire of the loaded hierarchy
WireExists(wid) ==
  /\ wid.Cryostat < Len(fGeoData.cryostats)
  /\ wid.TPC < Len(fGeoData.cryostats[wid.Cryostat + 1].fTPCs)
  /\ wid.Plane < Len(fGeoData.cryostats[wid.Cryostat + 1].fTPCs[wid.TPC + 1].fPlanes)
  /\ wid.Wire <
       Len(fGeoData.cryostats[wid.Cryostat + 1].fTPCs[wid.TPC + 1].fPlanes[wid.Plane + 1].fWire)

\* the wire a wire ID names
WireAt(wid) ==
  fGeoData.cryostats[wid.Cryostat + 1].fTPCs[wid.TPC + 1].fPlanes[wid.Plane + 1].fWire[wid.Wire + 1]

\* the two wire IDs are on the same TPC, on different planes, and both exist
PreconditionHolds(wid1, wid2) ==
  /\ wid1.Cryostat = wid2.Cryostat
  /\ wid1.TPC = wid2.TPC
  /\ wid1.Plane # wid2.Plane
  /\ WireExists(wid1)
  /\ WireExists(wid2)

\* (z2 - z1) * (y4 - y3) - (y2 - y1) * (z4 - z3): zero iff the (y, z)
\* projections of the two wires are parallel
DirectionCross(w1, w2) ==
  RSub(RMul(RSub(Z(w1.end), Z(w1.start)), RSub(Y(w2.end), Y(w2.start))),
       RMul(RSub(Y(w1.end), Y(w1.start)), RSub(Z(w2.end), Z(w2.start))))

\* the point (y, z) is on the line through the (y, z) projection of the wire
OnLineOf(w, y, z) ==
  RMul(RSub(y, Y(w.start)), RSub(Z(w.end), Z(w.start)))
    = RMul(RSub(z, Z(w.start)), RSub(Y(w.end), Y(w.start)))

\* the point (y, z) is within the extent of the wire, end points included
InExtentOf(w, y, z) ==
  /\ ~RLt(y, Y(w.start)) \/ ~RLt(y, Y(w.end))
  /\ ~RGt(y, Y(w.start)) \/ ~RGt(y, Y(w.end))
  /\ ~RLt(z, Z(w.start)) \/ ~RLt(z, Z(w.end))
  /\ ~RGt(z, Z(w.start)) \/ ~RGt(z, Z(w.end))

\* C1: WireIDsIntersect, 2D and 3D, returns false without an exception when
\* the wire IDs are on different TPCs, on the same plane, or name a wire that
\* does not exist; every output coordinate is then +infinity and the TPC of
\* the 2D result is the invalid TPC value.
C1_PreconditionFailureIsInfinity ==
  (op \in {"WireIDsIntersect", "WireIDsIntersect3D"}
     /\ ~PreconditionHolds(args[1], args[2]))
  => /\ ret.threw = FALSE
     /\ ret.result = FALSE
     /\ op = "WireIDsIntersect"
          => (ret.y = infinity /\ ret.z = infinity /\ ret.TPC = InvalidID)
     /\ op = "WireIDsIntersect3D"
          => ret.intersection = <<infinity, infinity, infinity>>

\* two existing wires of one plane whose lines are not parallel were probed
C1_Witness ==
  /\ op = "WireIDsIntersect"
  /\ WireExists(args[1])
  /\ WireExists(args[2])
  /\ args[1].Cryostat = args[2].Cryostat
  /\ args[1].TPC = args[2].TPC
  /\ args[1].Plane = args[2].Plane
  /\ args[1].Wire # args[2].Wire
  /\ DirectionCross(WireAt(args[1]), WireAt(args[2])) # Q(0)
  /\ ret.result = FALSE
  /\ ret.y = infinity

\* C7: in the 2D WireIDsIntersect, when the precondition holds and the lines
\* cross, the result holds the crossing point; the call returns true with the
\* TPC of wid1 exactly when that point is within both segments (end points
\* included), and otherwise false with the invalid TPC and the finite point.
C7_OutOfBoundsKeepsPoint ==
  (op = "WireIDsIntersect"
     /\ PreconditionHolds(args[1], args[2])
     /\ DirectionCross(WireAt(args[1]), WireAt(args[2])) # Q(0))
  => /\ ret.threw = FALSE
     /\ IsFinite(ret.y)
     /\ IsFinite(ret.z)
     /\ OnLineOf(WireAt(args[1]), ret.y, ret.z)
     /\ OnLineOf(WireAt(args[2]), ret.y, ret.z)
     /\ ret.result = (/\ InExtentOf(WireAt(args[1]), ret.y, ret.z)
                      /\ InExtentOf(WireAt(args[2]), ret.y, ret.z))
     /\ ret.TPC = (IF ret.result THEN args[1].TPC ELSE InvalidID)

\* a crossing point outside one of the wires was reported
C7_Witness ==
  /\ op = "WireIDsIntersect"
  /\ PreconditionHolds(args[1], args[2])
  /\ ret.result = FALSE
  /\ IsFinite(ret.y)
  /\ IsFinite(ret.z)
  /\ ~InExtentOf(WireAt(args[2]), ret.y, ret.z)
  /\ ret.TPC = InvalidID

\* a crossing point on the end point of a wire is accepted
C7_EndPointReached ==
  /\ op = "WireIDsIntersect"
  /\ ret.threw = FALSE
  /\ ret.result = TRUE
  /\ <<ret.y, ret.z>> = <<Y(WireAt(args[1]).start), Z(WireAt(args[1]).start)>>

\* C8: in the 2D WireIDsIntersect, when the precondition holds and the two
\* projected lines are parallel, the call returns false with y = z = +infinity
\* and the invalid TPC.
C8_ParallelIsInfinity ==
  (op = "WireIDsIntersect"
     /\ PreconditionHolds(args[1], args[2])
     /\ DirectionCross(WireAt(args[1]), WireAt(args[2])) = Q(0))
  => /\ ret.threw = FALSE
     /\ ret.result = FALSE
     /\ ret.y = infinity
     /\ ret.z = infinity
     /\ ret.TPC = InvalidID

\* two parallel wires of different planes of one TPC were probed
C8_Witness ==
  /\ op = "WireIDsIntersect"
  /\ PreconditionHolds(args[1], args[2])
  /\ DirectionCross(WireAt(args[1]), WireAt(args[2])) = Q(0)
  /\ ret.result = FALSE

----------------------------------------------------------------------------
(* Properties of the wire end points.                                      *)

\* C4 as stated: the returned end point never has a smaller z than the
\* returned start point.
C4_EndNeverBelowStart ==
  (op = "WireEndPoints" /\ ~ret.threw) => RLe(Z(ret.xyzStart), Z(ret.xyzEnd))

\* C4, amended: the returned end point has z not smaller than the start
\* point's for every wire whose z extent is at least 0.01; for a wire whose z
\* extent is below 0.01 it has y not smaller than the start point's instead.
C4_EndOrdering ==
  (op = "WireEndPoints" /\ ~ret.threw)
  => LET dz == RAbs(RSub(Z(ret.xyzEnd), Z(ret.xyzStart)))
     IN  /\ ~RLt(dz, Num(1, 100)) => RLe(Z(ret.xyzStart), Z(ret.xyzEnd))
         /\ RLt(dz, Num(1, 100)) => RLe(Y(ret.xyzStart), Y(ret.xyzEnd))

\* a nearly vertical wire was returned ordered by y against its z order
C4_Witness ==
  /\ op = "WireEndPoints"
  /\ ~ret.threw
  /\ RLt(Z(ret.xyzEnd), Z(ret.xyzStart))
  /\ RLt(Y(ret.xyzStart), Y(ret.xyzEnd))

----------------------------------------------------------------------------
(* Properties of the iteration bounds.                                     *)

\* the number of TPCs of cryostat c of the hierarchy, 0 if there is none
TPCsIn(c) ==
  IF c < Len(fGeoData.cryostats) THEN Len(fGeoData.cryostats[c + 1].fTPCs) ELSE 0

\* the number of planes of TPC t of cryostat c, 0 if there is none
PlanesIn(c, t) ==
  IF t < TPCsIn(c) THEN Len(fGeoData.cryostats[c + 1].fTPCs[t + 1].fPlanes) ELSE 0

\* the number of wires of plane p of TPC t of cryostat c, 0 if there is none
WiresIn(c, t, p) ==
  IF p < PlanesIn(c, t)
    THEN Len(fGeoData.cryostats[c + 1].fTPCs[t + 1].fPlanes[p + 1].fWire)
    ELSE 0

\* the indices of an identifier, outermost first, without its validity
Indices(id) ==
  <<id.Cryostat>>
    \o (IF "TPC" \in DOMAIN id THEN <<id.TPC>> ELSE <<>>)
    \o (IF "Plane" \in DOMAIN id THEN <<id.Plane>> ELSE <<>>)
    \o (IF "Wire" \in DOMAIN id THEN <<id.Wire>> ELSE <<>>)

\* the indices of the container that follows the one with indices i
NextContainer(i) ==
  IF Len(i) = 1 THEN <<i[1] + 1>>
  ELSE IF Len(i) = 2
    THEN (IF i[2] + 1 < TPCsIn(i[1]) THEN <<i[1], i[2] + 1>> ELSE <<i[1] + 1, 0>>)
  ELSE IF i[3] + 1 < PlanesIn(i[1], i[2]) THEN <<i[1], i[2], i[3] + 1>>
  ELSE IF i[2] + 1 < TPCsIn(i[1]) THEN <<i[1], i[2] + 1, 0>>
  ELSE <<i[1] + 1, 0, 0>>

\* indices i followed by zeros up to n indices
ZeroPadded(i, n) == i \o [k \in 1..(n - Len(i)) |-> 0]

\* the container with indices i holds an element of the level with n indices
HoldsElement(i, n) ==
  IF Len(i) = 3 THEN WiresIn(i[1], i[2], i[3]) > 0
  ELSE IF Len(i) = 2
    THEN (IF n = 3 THEN PlanesIn(i[1], i[2]) > 0
          ELSE \E p \in 0..(PlanesIn(i[1], i[2]) - 1) : WiresIn(i[1], i[2], p) > 0)
  ELSE IF n = 2 THEN TPCsIn(i[1]) > 0
  ELSE IF n = 3 THEN \E t \in 0..(TPCsIn(i[1]) - 1) : PlanesIn(i[1], t) > 0
  ELSE \E t \in 0..(TPCsIn(i[1]) - 1) :
         \E p \in 0..(PlanesIn(i[1], t) - 1) : WiresIn(i[1], t, p) > 0

\* the end ID ret.value of container args[1] is the next container followed
\* by zeros when the container holds an element of that level, and else the
\* begin ID of the container, marked invalid
EndIDAsDocumented ==
  LET i == Indices(args[1])
      n == Len(Indices(ret.value))
  IN  IF HoldsElement(i, n)
        THEN Indices(ret.value) = ZeroPadded(NextContainer(i), n)
        ELSE Indices(ret.value) = ZeroPadded(i, n) /\ ret.value.isValid = FALSE

EndIDQueries ==
  {"GetEndTPCID", "GetEndPlaneID(CryostatID)", "GetEndPlaneID(TPCID)",
   "GetEndWireID(CryostatID)", "GetEndWireID(TPCID)", "GetEndWireID(PlaneID)"}

\* C3: at every level the end ID of a container is {next container, 0, ...}
\* when the container exists and holds an element of that level, and
\* otherwise the begin ID of the container marked invalid.
C3_EndIDs == op \in EndIDQueries => EndIDAsDocumented

\* the five end ID queries other than GetEndPlaneID(CryostatID) are as
\* documented
EndIDsButPlaneOfCryostat ==
  op \in EndIDQueries \ {"GetEndPlaneID(CryostatID)"} => EndIDAsDocumented

\* an end ID was asked of a container that holds no element of the level
EndIDOfEmptyContainerReached ==
  /\ op \in EndIDQueries \ {"GetEndPlaneID(CryostatID)"}
  /\ ~HoldsElement(Indices(args[1]), Len(Indices(ret.value)))
  /\ ret.value.isValid = FALSE

----------------------------------------------------------------------------
(* Properties of the wire and plane selection.                             *)

\* C5: on a plane with at least one wire, ClosestWireID(n) is a valid ID of
\* a wire of that plane: wire n when n < Nwires(), the last wire otherwise.
C5_ClosestWireExists ==
  (op = "ClosestWireID"
     /\ WiresIn(args[1].Cryostat, args[1].TPC, args[1].Plane) > 0)
  => LET n == WiresIn(args[1].Cryostat, args[1].TPC, args[1].Plane)
     IN  /\ ret.value.isValid
         /\ <<ret.value.Cryostat, ret.value.TPC, ret.value.Plane>>
              = <<args[1].Cryostat, args[1].TPC, args[1].Plane>>
         /\ ret.value.Wire < n
         /\ ret.value.Wire = (IF args[2] < n THEN args[2] ELSE n - 1)

\* for a wire number that exists ClosestWireID returns that wire
ClosestWireIDInRange ==
  (op = "ClosestWireID"
     /\ args[2] < WiresIn(args[1].Cryostat, args[1].TPC, args[1].Plane))
  => ret.value = WireID(args[1].Cryostat, args[1].TPC, args[1].Plane, args[2])

\* C6: ThirdPlane returns a plane only when the TPC of pid1 has exactly 3
\* planes and the two inputs are distinct planes, and then the plane of that
\* TPC that is neither of them; with another number of planes, or with
\* pid1.Plane = pid2.Plane, it throws and returns nothing.
C6_ThirdPlaneOnlyOfThree ==
  op = "ThirdPlane"
  => LET n == PlanesIn(args[1].Cryostat, args[1].TPC)
     IN  /\ (n # 3 \/ args[1].Plane = args[2].Plane)
               => (ret.threw /\ "value" \notin DOMAIN ret)
         /\ ~ret.threw
               => /\ n = 3
                  /\ args[1].Plane # args[2].Plane
                  /\ ret.value.Cryostat = args[1].Cryostat
                  /\ ret.value.TPC = args[1].TPC
                  /\ ret.value.Plane < n
                  /\ ret.value.Plane \notin {args[1].Plane, args[2].Plane}

\* ThirdPlane was asked of two distinct planes of a TPC with 4 planes
C6_Witness ==
  /\ op = "ThirdPlane"
  /\ PlanesIn(args[1].Cryostat, args[1].TPC) = 4
  /\ args[1].Plane # args[2].Plane
  /\ args[2].Plane < 4
  /\ args[1].TPC = args[2].TPC
  /\ ret.threw
  /\ ret.what = "supports only TPCs with 3 planes"

\* ThirdPlane returned the third plane of a TPC with 3 planes
ThirdPlaneReturned ==
  /\ op = "ThirdPlane"
  /\ ~ret.threw
  /\ ret.value.Plane = 1

----------------------------------------------------------------------------
(* Properties of the slope in the third plane.                             *)

BothSmall(slope1, slope2) ==
  /\ RLt(RAbs(slope1), Num(1, 1000))
  /\ RLt(RAbs(slope2), Num(1, 1000))

\* [(1/slope1) sin(angle3 - angle2) - (1/slope2) sin(angle3 - angle1)]
\*   / sin(angle1 - angle2)
InverseSlopeFormula(angle1, slope1, angle2, slope2, angle3) ==
  RDiv(RSub(RDiv(SinDiff(angle3, angle2), slope1),
            RDiv(SinDiff(angle3, angle1), slope2)),
       SinDiff(angle1, angle2))

\* C2: for every input where not both slopes are below 0.001 in magnitude,
\* the returned slope3 has 1/slope3 equal to the formula (stated where the
\* formula gives a finite value other than zero, the inverse of some slope).
C2_FormulaUnlessBothSmall ==
  (op = "ComputeThirdPlaneSlope" /\ ~BothSmall(args[2], args[4]))
  => LET f == InverseSlopeFormula(args[1], args[2], args[3], args[4], args[5])
     IN  (IsFinite(f) /\ f # Q(0)) => RInv(ret.value) = f

\* the formula holds where both slopes are above 0.001 in magnitude
FormulaWhenBothLarge ==
  (op = "ComputeThirdPlaneSlope"
     /\ RGt(RAbs(args[2]), Num(1, 1000)) /\ RGt(RAbs(args[4]), Num(1, 1000)))
  => LET f == InverseSlopeFormula(args[1], args[2], args[3], args[4], args[5])
     IN  (IsFinite(f) /\ f # Q(0)) => RInv(ret.value) = f

\* C9: when both slopes are below 0.001 in magnitude ComputeThirdPlaneSlope
\* returns exactly 0.001, for any angles, by its early return: neither the
\* formula nor the inversion is evaluated.
C9_BothSmallGivesThreshold ==
  (op = "ComputeThirdPlaneSlope" /\ BothSmall(args[2], args[4]))
  => /\ ret.threw = FALSE
     /\ ret.value = Num(1, 1000)
     /\ ret.path = "small"

\* two small slopes, not both zero, were given with planes at equal angles
C9_Witness ==
  /\ op = "ComputeThirdPlaneSlope"
  /\ BothSmall(args[2], args[4])
  /\ args[2] # Q(0)
  /\ args[1] = args[3]
  /\ ret.value = Num(1, 1000)

\* the value of the inverse slope that ComputeThirdPlaneSlope computes: the
\* formula when both slopes are above 0.001, else the initial 0.001
ComputedInverse ==
  IF RGt(RAbs(args[2]), Num(1, 1000)) /\ RGt(RAbs(args[4]), Num(1, 1000))
    THEN InverseSlopeFormula(args[1], args[2], args[3], args[4], args[5])
    ELSE Num(1, 1000)

\* C10: when the value v computed for the inverse slope is exactly zero
\* ComputeThirdPlaneSlope returns 999; for every other v it returns 1/v.
C10_ZeroInverseGivesSentinel ==
  (op = "ComputeThirdPlaneSlope" /\ ~BothSmall(args[2], args[4]))
  => /\ ret.threw = FALSE
     /\ ComputedInverse = Q(0) => ret.value = Q(999)
     /\ ComputedInverse # Q(0) => ret.value = RInv(ComputedInverse)

\* the formula gave exactly zero for two slopes above the threshold
C10_Witness ==
  /\ op = "ComputeThirdPlaneSlope"
  /\ ret.path = "formula"
  /\ ComputedInverse = Q(0)
  /\ ret.value = Q(999)

----------------------------------------------------------------------------
(* Properties of the pitch-aware slope in the third plane.                 *)

\* C11: ComputeThirdPlane_dTdW equals pitch_target times
\* ComputeThirdPlaneSlope of the two input slopes each divided by the pitch
\* of its own plane, for every input.
C11_PitchRescaling ==
  op = "ComputeThirdPlane_dTdW"
  => /\ ret.threw = FALSE
     /\ ret.value =
          RMul(args[8],
               ComputeThirdPlaneSlope(args[1], RDiv(args[3], args[2]),
                                      args[4], RDiv(args[6], args[5]),
                                      args[7]).value)

\* three different pitches were given, and the slopes are above the
\* threshold only once divided by the pitch
C11_Witness ==
  /\ op = "ComputeThirdPlane_dTdW"
  /\ args[2] = Num(1, 2) /\ args[5] = Q(1) /\ args[8] = Q(2)
  /\ args[3] = Num(1, 1000) /\ args[6] = Q(1)
  /\ args[1] # args[4]
  /\ ret.value # Q(2000)
  /\ IsFinite(ret.value)

----------------------------------------------------------------------------
(* Properties of the access to the wires of a plane.                       *)

\* the wires of the plane a query was made on, as stored in the hierarchy
WiresOfAskedPlane ==
  fGeoData.cryostats[args[1].Cryostat + 1].fTPCs[args[1].TPC + 1]
    .fPlanes[args[1].Plane + 1].fWire

\* C12: for every index i of a plane, HasWire(i) is true iff i < Nwires();
\* WirePtr(i) is null iff HasWire(i) is false; and Wire(i) signals
\* "WireOutOfRange", returning no wire, iff i >= Nwires(), also for
\* i = Nwires(); a wire that is returned is the wire stored at index i.
C12_WireAccessInRange ==
  LET n == Len(WiresOfAskedPlane)
      i == args[2]
  IN  /\ op = "PlaneGeo::HasWire" => (ret.value <=> i < n)
      /\ op = "PlaneGeo::WirePtr"
           => /\ ret.null <=> ~(i < n)
              /\ ~ret.null => ret.wire = WiresOfAskedPlane[i + 1]
      /\ op = "PlaneGeo::Wire"
           => /\ ret.threw <=> i >= n
              /\ ret.threw => (ret.category = "WireOutOfRange" /\ "wire" \notin DOMAIN ret)
              /\ ~ret.threw => ret.wire = WiresOfAskedPlane[i + 1]

\* Wire(i) was asked for i = Nwires() on a plane that has wires
C12_Witness ==
  /\ op = "PlaneGeo::Wire"
  /\ Len(WiresOfAskedPlane) > 0
  /\ args[2] = Len(WiresOfAskedPlane)
  /\ ret.threw

----------------------------------------------------------------------------
(* Properties of the coordinates on a plane.                               *)

\* the plane a query was made on, as stored in the hierarchy
AskedPlane ==
  fGeoData.cryostats[args[1].Cryostat + 1].fTPCs[args[1].TPC + 1]
    .fPlanes[args[1].Plane + 1]

\* the centre of wire k of the asked plane
CentreOfWire(k) ==
  LET w == AskedPlane.fWire[k + 1]
  IN  <<RDiv(RAdd(w.start[1], w.end[1]), Q(2)),
        RDiv(RAdd(w.start[2], w.end[2]), Q(2)),
        RDiv(RAdd(w.start[3], w.end[3]), Q(2))>>

\* the wires of the asked plane are parallel and equally pitched: the centre
\* of wire k is k pitches from the centre of wire 0 along the direction
\* (0, sin phi_z, cos phi_z), and every wire is orthogonal to that direction
EquallyPitched ==
  \A k \in 0..(Len(AskedPlane.fWire) - 1) :
    LET w == AskedPlane.fWire[k + 1]
        c == CentreOfWire(k)
        c0 == CentreOfWire(0)
        step == RMul(Q(k), AskedPlane.fWirePitch)
    IN  /\ c[1] = c0[1]
        /\ c[2] = RAdd(c0[2], RMul(step, AskedPlane.fSinPhiZ))
        /\ c[3] = RAdd(c0[3], RMul(step, AskedPlane.fCosPhiZ))
        /\ RAdd(RMul(RSub(w.end[2], w.start[2]), AskedPlane.fSinPhiZ),
                RMul(RSub(w.end[3], w.start[3]), AskedPlane.fCosPhiZ)) = Q(0)

\* the query was made at the centre of wire k of the asked plane
AtCentreOfWire(k) == k < Len(AskedPlane.fWire) /\ args[2] = CentreOfWire(k)

\* C13 as stated: on a plane with equally pitched parallel wires,
\* WireCoordinate at the centre of wire k returns k times the wire pitch.
C13_WireCoordinateIsIndexTimesPitch ==
  (op = "WireCoordinate" /\ EquallyPitched)
  => \A k \in 0..MaxWireNo :
       AtCentreOfWire(k) => ret.value = RMul(Q(k), AskedPlane.fWirePitch)

\* C13 amended: on a plane with equally pitched parallel wires,
\* WireCoordinate at the centre of wire k returns k, the wire index, in units
\* of the wire pitch; it is PlaneCoordinate that returns k times the pitch.
C13_WireCoordinateIsIndex ==
  (op \in {"WireCoordinate", "PlaneCoordinate"} /\ EquallyPitched)
  => \A k \in 0..MaxWireNo :
       AtCentreOfWire(k)
       => /\ op = "WireCoordinate" => ret.value = Q(k)
          /\ op = "PlaneCoordinate" => ret.value = RMul(Q(k), AskedPlane.fWirePitch)

\* WireCoordinate was asked at the centre of the last wire of a plane with
\* three wires 0.5 cm apart
C13_Witness ==
  /\ op = "WireCoordinate"
  /\ EquallyPitched
  /\ AskedPlane.fWirePitch = Num(1, 2)
  /\ Len(AskedPlane.fWire) = 3
  /\ AtCentreOfWire(2)
  /\ ret.value = Q(2)

----------------------------------------------------------------------------
(* Properties of the nearest wire.                                         *)

\* the coordinate of the asked point along the direction of increasing wire
\* number from the centre of wire 0, in wire pitches
PitchesFromFirstWire ==
  LET c0 == CentreOfWire(0)
  IN  RDiv(RAdd(RMul(RSub(args[2][2], c0[2]), AskedPlane.fSinPhiZ),
                RMul(RSub(args[2][3], c0[3]), AskedPlane.fCosPhiZ)),
           AskedPlane.fWirePitch)

\* r is the integer nearest to a: r - 1/2 <= a < r + 1/2
IsNearestInt(r, a) ==
  /\ RLe(RSub(Q(r), Num(1, 2)), a)
  /\ RLt(a, RAdd(Q(r), Num(1, 2)))

\* the wire indices that the coordinate of an asked point rounds to
NominalWires == (0 - 20)..20

C14_BeyondLastWire ==
  /\ op = "NearestWireID"
  /\ ret.threw
  /\ ret.badWireID.Wire > Len(AskedPlane.fWire)
  /\ ret.betterWireID.Wire = Len(AskedPlane.fWire) - 1

\* C15: NearestWireID at the centre of wire k of a plane returns wire k of
\* that plane, with no out-of-range signal, for every wire k.
C15_NearestOfCentreIsTheWire ==
  op = "NearestWireID"
  => \A k \in 0..(Len(AskedPlane.fWire) - 1) :
       args[2] = CentreOfWire(k)
       => /\ ~ret.threw
          /\ ret.value = [isValid |-> TRUE, Cryostat |-> args[1].Cryostat,
                          TPC |-> args[1].TPC, Plane |-> args[1].Plane, Wire |-> k]

\* the centre of the last wire of a plane with three wires 0.5 cm apart was
\* asked about
C15_Witness ==
  /\ op = "NearestWireID"
  /\ AskedPlane.fWirePitch = Num(1, 2)
  /\ args[2] = CentreOfWire(2)
  /\ ~ret.threw
  /\ ret.value.Wire = 2

----------------------------------------------------------------------------
(* Properties of the decomposition of points.                              *)

\* the points asked about the asked plane
AskedPoints ==
  {<<x, y, z>> : x \in {Q(0), Num(3, 2)},
                 y \in {Q(-1), Num(1, 4), Q(2)},
                 z \in {Q(-2), Num(1, 2), Q(7)}}
    \cup {CentreOfWire(k) : k \in 0..(Len(AskedPlane.fWire) - 1)}

\* (P - R) . d for a point P, a reference point R and a direction d
Along(P, R, d) ==
  RAdd(RAdd(RMul(RSub(P[1], R[1]), d[1]), RMul(RSub(P[2], R[2]), d[2])),
       RMul(RSub(P[3], R[3]), d[3]))

\* the decomposition of P on the wire frame of the asked plane: the distance
\* along x from the centre of wire 0, the component along the wires and the
\* component along the direction of increasing wire number
OnWireFrame(P) ==
  LET R == CentreOfWire(0)
      s == AskedPlane.fSinPhiZ
      c == AskedPlane.fCosPhiZ
  IN  [distance |-> Along(P, R, <<Q(1), Q(0), Q(0)>>),
       projection |-> <<Along(P, R, <<Q(0), c, RNeg(s)>>), Along(P, R, <<Q(0), s, c>>)>>]

\* the coordinates i of the ends of the wires of the asked plane
EndCoordinates(i) ==
  {AskedPlane.fWire[k].start[i] : k \in 1..Len(AskedPlane.fWire)}
    \cup {AskedPlane.fWire[k].end[i] : k \in 1..Len(AskedPlane.fWire)}

\* the middle of the range of the coordinates i of the wire ends
MiddleOfEnds(i) ==
  LET lo == CHOOSE v \in EndCoordinates(i) : ~\E u \in EndCoordinates(i) : RLt(u, v)
      hi == CHOOSE v \in EndCoordinates(i) : ~\E u \in EndCoordinates(i) : RLt(v, u)
  IN  RDiv(RAdd(lo, hi), Q(2))

\* the decomposition of P on the width/depth frame of the asked plane: the
\* distance along -x from the centre of the box of the wires, the component
\* along the width (z) and the component along the depth (y)
OnWidthDepthFrame(P) ==
  LET R == <<MiddleOfEnds(1), MiddleOfEnds(2), MiddleOfEnds(3)>>
  IN  [distance |-> Along(P, R, <<Q(-1), Q(0), Q(0)>>),
       projection |-> <<Along(P, R, <<Q(0), Q(0), Q(1)>>),
                        Along(P, R, <<Q(0), Q(1), Q(0)>>)>>]

\* C16: for every point P and every plane, composing the decomposition of P
\* gives P back, for the wire frame (ComposePoint(DecomposePoint(P)) = P) and
\* for the width/depth frame (ComposePoint(DecomposePointWidthDepth(P)) = P).
C16_ComposeOfDecomposeIsIdentity ==
  /\ op = "DecomposePoint" => ret.value = OnWireFrame(args[2])
  /\ op = "DecomposePointWidthDepth" => ret.value = OnWidthDepthFrame(args[2])
  /\ op = "ComposePoint(WireDecomposedVector_t)"
       => /\ \E P \in AskedPoints : args[2] = OnWireFrame(P)
          /\ \A P \in AskedPoints : args[2] = OnWireFrame(P) => ret.value = P
  /\ op = "ComposePoint(WDDecomposedVector_t)"
       => /\ \E P \in AskedPoints : args[2] = OnWidthDepthFrame(P)
          /\ \A P \in AskedPoints : args[2] = OnWidthDepthFrame(P) => ret.value = P

\* the decomposition, on the wire frame of a tilted plane, of a point off the
\* plane and off its wires was composed
C16_Witness ==
  /\ op = "ComposePoint(WireDecomposedVector_t)"
  /\ AskedPlane.fSinPhiZ = Num(3, 5)
  /\ args[2] = OnWireFrame(<<Num(3, 2), Num(1, 4), Q(7)>>)
  /\ args[2].distance # Q(0)
  /\ ret.value = <<Num(3, 2), Num(1, 4), Q(7)>>

\* the decomposition of a point on the width/depth frame was composed
C16_WidthDepthComposed ==
  /\ op = "ComposePoint(WDDecomposedVector_t)"
  /\ args[2] = OnWidthDepthFrame(<<Num(3, 2), Num(1, 4), Q(7)>>)
  /\ args[2] # OnWireFrame(<<Num(3, 2), Num(1, 4), Q(7)>>)
  /\ ret.value = <<Num(3, 2), Num(1, 4), Q(7)>>

----------------------------------------------------------------------------
(* Properties of the ordering of identifiers.                              *)

\* the sequence s without its last element
AllButLast(s) == SubSeq(s, 1, Len(s) - 1)

\* s comes before t in the lexicographic order of sequences of equal length
LexicographicallyBefore(s, t) ==
  \E j \in 1..Len(s) : s[j] < t[j] /\ \A i \in 1..(j - 1) : s[i] = t[i]

\* C17: for two identifiers a and b of the same level that differ only in
\* their deepest index, a < b iff a's deepest index is smaller than b's,
\* whatever the shared outer indices; the ordering over the whole chain is
\* lexicographic.
C17_OrderingIsLexicographic ==
  op = "operator<"
  => LET a == Indices(args[1])
         b == Indices(args[2])
     IN  /\ Len(a) = Len(b)
         /\ (AllButLast(a) = AllButLast(b) /\ a # b)
              => (ret.value <=> a[Len(a)] < b[Len(b)])
         /\ ret.value <=> LexicographicallyBefore(a, b)

\* two wire identifiers with the same outer indices, not all zero, and the
\* first with the larger wire number were compared
C17_Witness ==
  /\ op = "operator<"
  /\ "Wire" \in DOMAIN args[1]
  /\ <<args[1].Cryostat, args[1].TPC, args[1].Plane>> = <<1, 0, 1>>
  /\ <<args[2].Cryostat, args[2].TPC, args[2].Plane>> = <<1, 0, 1>>
  /\ args[1].Wire > args[2].Wire
  /\ ret.value = FALSE

\* an identifier with a smaller deepest index but a larger outer index was
\* compared with another
C17_OuterIndexDecides ==
  /\ op = "operator<"
  /\ "Wire" \in DOMAIN args[1]
  /\ args[1].Wire < args[2].Wire
  /\ args[1].TPC > args[2].TPC
  /\ args[1].Cryostat = args[2].Cryostat
  /\ ret.value = FALSE

----------------------------------------------------------------------------
(* Properties of loading a geometry.                                       *)

\* LoadGeometryFile has returned without raising an error
LoadedGeometry == op = "LoadGeometryFile" /\ ~ret.threw

\* what the builder of the last LoadGeometryFile extracts from the description
\* a file names
ExtractedFrom(file) == args[3][file]

\* C19: after any successful LoadGeometryFile(gdmlfile, rootfile, builder,
\* bForceReload), for either value of bForceReload and whether or not a
\* geometry was loaded before, the hierarchy (cryostats and auxiliary
\* detectors) consists only of what the builder extracted from the description
\* named by rootfile, and the stored file names name the description the
\* hierarchy was built from.
C19_HierarchyIsOfNamedFile ==
  LoadedGeometry
  => /\ fGeoData = ExtractedFrom(args[2])
     /\ fGDMLfile = args[1]
     /\ fROOTfile = args[2]
     /\ fGeoData = ExtractedFrom(fROOTfile)

\* the claim of C19 for the loads that import the description: the forced
\* ones and the first one
C19_ImportingLoadRebuilds ==
  (LoadedGeometry /\ (args[4] \/ gGeoManager = args[2]))
  => /\ fGeoData = ExtractedFrom(args[2])
     /\ fGDMLfile = args[1]
     /\ fROOTfile = args[2]

\* whatever the load, the hierarchy is the one of the description ROOT holds
C19_HierarchyIsOfHeldDescription ==
  LoadedGeometry => fGeoData = ExtractedFrom(gGeoManager)

\* an unforced load of another file, with a builder that extracts different
\* hierarchies from the two descriptions, has returned
C19_UnforcedLoadOfAnotherFile ==
  /\ LoadedGeometry
  /\ ~args[4]
  /\ gGeoManager # args[2]
  /\ ExtractedFrom(gGeoManager) # ExtractedFrom(args[2])

\* a forced load of another file than the one loaded before has returned
C19_ForcedLoad ==
  /\ LoadedGeometry
  /\ args[4]
  /\ args[1] # args[2]

----------------------------------------------------------------------------
(* Properties of applying a channel mapping.                               *)

\* the numbers of a sequence are in the order of a sorter
InOrderOf(sorter, numbers) ==
  \A i \in 1..Len(numbers) : \A j \in (i + 1)..Len(numbers) :
    IF sorter = "upwards" THEN numbers[i] <= numbers[j] ELSE numbers[i] >= numbers[j]

\* the whole hierarchy is in the order of a sorter
SortedBy(sorter, geo) ==
  /\ InOrderOf(sorter, geo.auxDets)
  /\ InOrderOf(sorter, [c \in 1..Len(geo.cryostats) |-> geo.cryostats[c].fOpDets])
  /\ \A c \in 1..Len(geo.cryostats) :
       InOrderOf(sorter, [t \in 1..Len(geo.cryostats[c].fTPCs) |->
                            Len(geo.cryostats[c].fTPCs[t].fPlanes)])

\* the views of all the planes of a hierarchy
ViewsOfHierarchy(geo) == {View(Plane(geo, id)) : id \in {p \in PlaneIDs : HasPlane(geo, p)}}

\* the hierarchy is sorted for the mapping being applied and its derived
\* quantities are those of the sorted hierarchy
SortedAndUpdated ==
  /\ SortedBy(pChannelMap.Sorter, fGeoData)
  /\ allViews = ViewsOfHierarchy(fGeoData)

\* the step taken is pChannelMap->Initialize(..)
InitializeStep == pChannelMap # Null /\ pChannelMap' # Null /\ pChannelMap' # pChannelMap

\* the steps of ApplyChannelMap come in order
ApplyChannelMapInOrder ==
  /\ (op = "ApplyChannelMap" /\ fGeoData' # fGeoData)
       => /\ SortedBy(pChannelMap.Sorter, fGeoData')
          /\ pChannelMap.geodata = Null
          /\ fChannelMapAlg' = fChannelMapAlg
  /\ allViews' # allViews
       => /\ SortedBy(pChannelMap.Sorter, fGeoData)
          /\ allViews' = ViewsOfHierarchy(fGeoData)
          /\ pChannelMap.geodata = Null
          /\ fChannelMapAlg' = fChannelMapAlg
  /\ InitializeStep
       => /\ SortedAndUpdated
          /\ pChannelMap'.geodata = fGeoData
          /\ fChannelMapAlg' = fChannelMapAlg
  /\ fChannelMapAlg' # fChannelMapAlg
       => /\ SortedAndUpdated
          /\ pChannelMap.geodata = fGeoData
          /\ fChannelMapAlg' = pChannelMap
          /\ pc' = Idle

\* the active mapping was initialized on a hierarchy sorted by its sorter
ActiveMapWasInitialized ==
  fChannelMapAlg # Null
  => /\ fChannelMapAlg.geodata # Null
     /\ SortedBy(fChannelMapAlg.Sorter, fChannelMapAlg.geodata)

\* C18: ApplyChannelMap(m) sorts the hierarchy with m's sorter, then recomputes
\* the derived quantities (UpdateAfterSorting), then calls m.Initialize on the
\* geometry data, and only then makes m the active channel mapping; the
\* previously active mapping is not modified and stays the active one until
\* that last step, so that m is never the active mapping before it has been
\* initialized on the sorted hierarchy.
C18_SortUpdateInitializeActivate ==
  /\ []ActiveMapWasInitialized
  /\ [][ApplyChannelMapInOrder]_vars

\* a mapping has been initialized on a hierarchy its sorter has reordered,
\* while another mapping, with the other sorter, is still the active one
C18_Witness ==
  /\ op = "ApplyChannelMap"
  /\ pChannelMap # Null
  /\ pChannelMap.geodata = fGeoData
  /\ fGeoData \notin Geometries \cup {NoGeometry}
  /\ fChannelMapAlg # Null
  /\ fChannelMapAlg.Sorter # pChannelMap.Sorter
  /\ fChannelMapAlg.geodata # fGeoData

\* ApplyChannelMap has made the mapping the active one, on a hierarchy its
\* sorter has reordered
C18_Applied ==
  /\ op = "ApplyChannelMap"
  /\ pc = Idle
  /\ fChannelMapAlg # Null
  /\ fChannelMapAlg.geodata = fGeoData
  /\ fGeoData \notin Geometries \cup {NoGeometry}
  /\ allViews # {}

----------------------------------------------------------------------------
(* Properties of the numbering of the optical detectors.                   *)

\* the optical detectors of cryostat c, as pairs of cryostat and number in it
OpDetsOf(c) ==
  {<<c, o>> : o \in {n \in OpDetNumbers : n < fGeoData.cryostats[c + 1].fOpDets}}

\* the optical detectors of the cryostats before cryostat c
OpDetsBefore(c) == UNION {OpDetsOf(k) : k \in 0..(c - 1)}

\* (o, c) names an optical detector of the geometry
IsOpDet(o, c) == c < Len(fGeoData.cryostats) /\ <<c, o>> \in OpDetsOf(c)

\* C20: for every cryostat c < Ncryostats() and every o < NOpDet of cryostat c,
\* OpDetFromCryo(o, c) returns the sum of NOpDet over the cryostats 0..c-1,
\* plus o, also when the cryostats hold different numbers of optical
\* detectors; for any other (o, c) it raises an error.
C20_PrefixSumNumbering ==
  op = "OpDetFromCryo"
  => IF IsOpDet(args[1], args[2])
       THEN ~ret.threw /\ ret.value = Cardinality(OpDetsBefore(args[2])) + args[1]
       ELSE ret.threw

\* the part of C20 on the other (o, c): an error is raised
C20_OutOfRangeRaises ==
  (op = "OpDetFromCryo" /\ ~IsOpDet(args[1], args[2])) => ret.threw

\* an optical detector of a cryostat that is not the first was numbered, in a
\* geometry whose cryostats hold different numbers of optical detectors
C20_AskedInLaterCryostat ==
  /\ op = "OpDetFromCryo"
  /\ IsOpDet(args[1], args[2])
  /\ args[2] > 0
  /\ Cardinality(OpDetsOf(0)) # Cardinality(OpDetsOf(args[2]))
  /\ ~ret.threw

----------------------------------------------------------------------------
(* Properties of ThirdPlane on every input.                                *)

\* the error ThirdPlane ended in, "none" if it returned a plane
ThirdPlaneError == IF ret.threw THEN ret.what ELSE "none"

\* one of the two planes asked has an index that is none of 0, 1, 2
PlaneIndexBeyondThree == args[1].Plane >= 3 \/ args[2].Plane >= 3

\* a returned plane is the third of 0, 1, 2 in the TPC of pid1; the search
\* never ends without a plane
ThirdPlaneIsTheThird ==
  /\ ~ret.threw
       => /\ args[1].Plane \in {0, 1, 2}
          /\ args[2].Plane \in {0, 1, 2}
          /\ args[1].Plane # args[2].Plane
          /\ ret.value.Cryostat = args[1].Cryostat
          /\ ret.value.TPC = args[1].TPC
          /\ {ret.value.Plane} = {0, 1, 2} \ {args[1].Plane, args[2].Plane}
  /\ ThirdPlaneError # "can't find a plane"

\* C30 as stated: whenever ThirdPlane(pid1, pid2) returns a value, pid1.Plane
\* and pid2.Plane are two distinct indices in {0, 1, 2} and the returned plane
\* has the cryostat and TPC of pid1 and the one plane index in {0, 1, 2}
\* different from both; inputs with a plane index >= 3 always end in the "too
\* many planes" error, and the "can't find a plane" error is never reached.
C30_BeyondThreeIsTooManyPlanes ==
  op = "ThirdPlane"
  => /\ ThirdPlaneIsTheThird
     /\ PlaneIndexBeyondThree => ThirdPlaneError = "too many planes"

\* C30 as the code has it: the same, but inputs with a plane index >= 3 end in
\* the "too many planes" error only when the TPC of pid1 has 3 planes; with
\* another number of planes they end, as every input does, in the "supports
\* only TPCs with 3 planes" error.
C30_ThirdPlaneOfThree ==
  op = "ThirdPlane"
  => /\ ThirdPlaneIsTheThird
     /\ PlaneIndexBeyondThree
          => ThirdPlaneError =
               IF PlanesIn(args[1].Cryostat, args[1].TPC) = 3
                 THEN "too many planes"
                 ELSE "supports only TPCs with 3 planes"

\* ThirdPlane was asked, in a TPC with 3 planes, of a plane with index 3 and
\* of one of the three planes, and ended in the "too many planes" error
C30_Witness ==
  /\ op = "ThirdPlane"
  /\ PlanesIn(args[1].Cryostat, args[1].TPC) = 3
  /\ args[1].Plane = 3
  /\ args[2].Plane = 1
  /\ ThirdPlaneError = "too many planes"

\* ThirdPlane was asked of plane 3 of a TPC that has 4 planes
C30_FourthPlaneAsked ==
  /\ op = "ThirdPlane"
  /\ PlanesIn(args[1].Cryostat, args[1].TPC) = 4
  /\ args[1].Plane = 3
  /\ ThirdPlaneError = "supports only TPCs with 3 planes"

----------------------------------------------------------------------------
(* Properties of a LoadGeometryFile that is refused.                       *)

\* the step is a call of LoadGeometryFile with an empty file name
LoadWithEmptyName ==
  /\ op = "none"
  /\ op' = "LoadGeometryFile"
  /\ args'[1] = "" \/ args'[2] = ""

\* C25: if gdmlfile or rootfile is empty, LoadGeometryFile raises an error and
\* leaves everything as it was before the call: the loaded hierarchy is not
\* cleared, the stored GDML and ROOT file names are not changed and no
\* description is imported.
C25_EmptyNameChangesNothing ==
  [][LoadWithEmptyName
       => /\ ret'.threw
          /\ fGeoData' = fGeoData
          /\ fGDMLfile' = fGDMLfile
          /\ fROOTfile' = fROOTfile
          /\ gGeoManager' = gGeoManager
          /\ UNCHANGED <<mapping, statics>>]_vars

\* a LoadGeometryFile with an empty ROOT file name was refused while a
\* geometry loaded from a file is held
C25_Witness ==
  /\ op = "LoadGeometryFile"
  /\ args[1] # ""
  /\ args[2] = ""
  /\ ret.threw
  /\ fGeoData # NoGeometry
  /\ fROOTfile # ""
  /\ gGeoManager # NoGeoManager

----------------------------------------------------------------------------
(* Properties of OpDetFromCryo across calls and loads.                     *)

\* what OpDetFromCryo(o, c) returns on the loaded hierarchy in a process that
\* has not called it before
FirstCallResult(o, c) == OpDetFromCryo(fGeoData, o, c, FALSE, <<>>, 0).ret

\* C26: the result of OpDetFromCryo(o, c) depends only on the currently loaded
\* hierarchy and on (o, c), never on the history of earlier calls: it is the
\* same whether or not the first OpDetFromCryo call of the process had an
\* out-of-range c, and the same before and after the hierarchy is re-loaded.
C26_ResultIgnoresHistory ==
  op = "OpDetFromCryo" => ret = FirstCallResult(args[1], args[2])

\* the table is the one the first call left: all zeros after a first call
\* with a cryostat that does not exist, while the hierarchy has optical
\* detectors in its first cryostat
C26_TableLeftByFailedFirstCall ==
  /\ op = "OpDetFromCryo"
  /\ Loaded
  /\ Len(LowestID) = 3
  /\ LowestID = <<0, 0, 0>>
  /\ Len(fGeoData.cryostats) = 2
  /\ fGeoData.cryostats[1].fOpDets > 0
  /\ args[2] = 1
  /\ ~ret.threw

\* the table was filled for another number of cryostats than are loaded
C26_TableOfAnotherHierarchy ==
  /\ op = "OpDetFromCryo"
  /\ Loaded
  /\ NCryo # Len(fGeoData.cryostats)
  /\ ret # FirstCallResult(args[1], args[2])

----------------------------------------------------------------------------
(* Properties of OpDetGeoFromOpDet.                                        *)

\* the number of optical detectors of the loaded hierarchy
TotalOpDets == Cardinality(OpDetsBefore(Len(fGeoData.cryostats)))

\* OpDetGeoFromOpDet has been called with the number OpDetFromCryo(o, c)
\* returned for an optical detector of the hierarchy
RoundTripOfOpDet ==
  /\ op = "OpDetGeoFromOpDet(OpDetFromCryo)"
  /\ IsOpDet(args[2], args[3])

\* OpDetGeoFromOpDet has been called with a number that is not below the
\* total number of optical detectors
BeyondLastOpDet ==
  /\ op \in {"OpDetGeoFromOpDet", "OpDetGeoFromOpDet(OpDetFromCryo)"}
  /\ args[1] >= TotalOpDets

\* the first half of C27
C27_RoundTrip ==
  RoundTripOfOpDet
  => ~ret.threw /\ ret.value = [Cryostat |-> args[3], OpDet |-> args[2]]

\* the second half of C27
C27_BeyondLastRaises == BeyondLastOpDet => ret.threw

\* C27: OpDetGeoFromOpDet inverts OpDetFromCryo: for every cryostat c and every
\* o < NOpDet of cryostat c, OpDetGeoFromOpDet(OpDetFromCryo(o, c)) is optical
\* detector o of cryostat c; and OpDetGeoFromOpDet(n) raises an error for
\* every n >= the total number of optical detectors.
C27_OpDetGeoInvertsOpDetFromCryo == C27_RoundTrip /\ C27_BeyondLastRaises

\* the table of OpDetGeoFromOpDet is the one of the loaded hierarchy
FreshGeoStatics ==
  geoStatics.Loaded
  => /\ geoStatics.NCryo = Len(fGeoData.cryostats)
     /\ \A c \in 0..Len(fGeoData.cryostats) :
          geoStatics.LowestID[c + 1] = Cardinality(OpDetsBefore(c))

\* what holds of OpDetGeoFromOpDet alone: while its table is the one of the
\* loaded hierarchy, it returns the optical detector with the prefix-sum
\* number n, and raises an error for every n that is no such number
C27_OpDetGeoOfPrefixSum ==
  (op \in {"OpDetGeoFromOpDet", "OpDetGeoFromOpDet(OpDetFromCryo)"} /\ FreshGeoStatics)
  => IF args[1] < TotalOpDets
       THEN /\ ~ret.threw
            /\ IsOpDet(ret.value.OpDet, ret.value.Cryostat)
            /\ args[1] = Cardinality(OpDetsBefore(ret.value.Cryostat)) + ret.value.OpDet
       ELSE ret.threw

\* the round trip was made for an optical detector of the second cryostat
C27_RoundTripInLaterCryostat ==
  /\ RoundTripOfOpDet
  /\ args[3] = 1
  /\ FreshGeoStatics
  /\ fGeoData.cryostats[1].fOpDets # fGeoData.cryostats[2].fOpDets

----------------------------------------------------------------------------
(* Properties of the slope in a third plane, on plane IDs.                 *)

\* the two input planes are on the same TPC
OnSameTPC == args[1].Cryostat = args[3].Cryostat /\ args[1].TPC = args[3].TPC

\* the two input planes are the same plane
SamePlane == OnSameTPC /\ args[1].Plane = args[3].Plane

\* plane p of the TPC of the first input plane
PlaneOfFirstTPC(p) ==
  fGeoData.cryostats[args[1].Cryostat + 1].fTPCs[args[1].TPC + 1].fPlanes[p + 1]

\* the two input planes and the output plane are planes of the TPC of pid1
PlanesExist ==
  \A p \in {args[1].Plane, args[3].Plane, args[5].Plane} :
    p < PlanesIn(args[1].Cryostat, args[1].TPC)

\* the value of ComputeThirdPlaneSlope on the angles of the three planes
SlopeOnAngles ==
  LET a(p) == Angle(PlaneOfFirstTPC(p).fCosPhiZ, PlaneOfFirstTPC(p).fSinPhiZ)
  IN  ComputeThirdPlaneSlope(a(args[1].Plane), args[2], a(args[3].Plane), args[4],
                             a(args[5].Plane)).value

\* the value of ComputeThirdPlane_dTdW on the angles and pitches of the planes
dTdWOnAnglesAndPitches ==
  LET a(p) == Angle(PlaneOfFirstTPC(p).fCosPhiZ, PlaneOfFirstTPC(p).fSinPhiZ)
      w(p) == PlaneOfFirstTPC(p).fWirePitch
  IN  ComputeThirdPlane_dTdW(a(args[1].Plane), w(args[1].Plane), args[2],
                             a(args[3].Plane), w(args[3].Plane), args[4],
                             a(args[5].Plane), w(args[5].Plane)).value

\* C22: ThirdPlaneSlope and ThirdPlane_dTdW on plane IDs raise a hard error (an
\* exception naming the caller and the offending plane IDs) and compute
\* nothing when the two input planes are on different TPCs or are the same
\* plane; for two different planes of the same TPC they return the value of
\* ComputeThirdPlaneSlope / ComputeThirdPlane_dTdW on those planes' PhiZ
\* angles (and wire pitches).
C22_IndependentPlanesOrError ==
  op \in {"ThirdPlaneSlope()", "ThirdPlane_dTdW()"}
  => /\ (~OnSameTPC \/ SamePlane)
          => /\ ret.threw
             /\ "value" \notin DOMAIN ret
             /\ {"category", "caller", "pids"} \subseteq DOMAIN ret
             /\ ret.category = "GeometryCore"
             /\ ret.caller = op
             /\ args[1] \in {ret.pids[i] : i \in 1..Len(ret.pids)}
             /\ SamePlane \/ args[3] \in {ret.pids[i] : i \in 1..Len(ret.pids)}
     /\ (OnSameTPC /\ ~SamePlane /\ PlanesExist)
          => /\ ~ret.threw
             /\ ret.value = IF op = "ThirdPlaneSlope()" THEN SlopeOnAngles
                            ELSE dTdWOnAnglesAndPitches

\* the slope was asked for twice the same plane, which exists
C22_Witness ==
  /\ op = "ThirdPlaneSlope()"
  /\ SamePlane
  /\ PlanesExist
  /\ ret.threw

\* dT/dW was asked for two planes of a TPC and a third of other pitch, and is
\* a number that is neither of the sentinels
C22_dTdWReturned ==
  /\ op = "ThirdPlane_dTdW()"
  /\ OnSameTPC /\ ~SamePlane /\ PlanesExist
  /\ PlaneOfFirstTPC(args[5].Plane).fWirePitch # PlaneOfFirstTPC(args[1].Plane).fWirePitch
  /\ ~ret.threw
  /\ IsFinite(ret.value)
  /\ ~REq(ret.value, Q(0))

\* the slope was asked for planes of two TPCs
C22_PlanesOfTwoTPCs ==
  /\ op = "ThirdPlaneSlope()"
  /\ ~OnSameTPC
  /\ ret.threw
  /\ Len(ret.pids) = 2

----------------------------------------------------------------------------
(* Properties of IntersectionPoint.                                        *)

\* IntersectionPoint was asked of two wires that pass the precondition check
\* and whose lines cross
AskedOfCrossingLines ==
  /\ op = "IntersectionPoint"
  /\ PreconditionHolds(args[1], args[2])
  /\ DirectionCross(WireAt(args[1]), WireAt(args[2])) # Q(0)

\* (y, z) is the point where the lines of the two wires cross
IsCrossingPoint ==
  /\ ~ret.threw
  /\ IsFinite(ret.y)
  /\ IsFinite(ret.z)
  /\ OnLineOf(WireAt(args[1]), ret.y, ret.z)
  /\ OnLineOf(WireAt(args[2]), ret.y, ret.z)

\* the point returned is on both wires
OnBothWires ==
  /\ InExtentOf(WireAt(args[1]), ret.y, ret.z)
  /\ InExtentOf(WireAt(args[2]), ret.y, ret.z)

\* C23: IntersectionPoint(wid1, wid2, y, z) does not check whether the
\* intersection lies on both wires: whenever the two wire IDs pass the
\* precondition check and their lines cross, it returns true and sets (y, z)
\* to the crossing point, also when that point is outside the extent of one
\* of the wires.
C23_TrueWheneverLinesCross ==
  AskedOfCrossingLines => (IsCrossingPoint /\ ret.result = TRUE)

\* what the code does: (y, z) is the crossing point, and the value returned
\* tells whether it is on both wires
C23_ReturnsWhetherOnBothWires ==
  AskedOfCrossingLines => (IsCrossingPoint /\ ret.result = OnBothWires)

\* the lines cross outside one of the wires
C23_CrossingOutsideAWire ==
  /\ AskedOfCrossingLines
  /\ IsCrossingPoint
  /\ ~OnBothWires

----------------------------------------------------------------------------
(* Properties of ChannelsIntersect.                                        *)

\* ChannelsIntersect has failed without writing y and z
FailedUntouched ==
  /\ ~ret.threw
  /\ ret.result = FALSE
  /\ ret.y = Untouched
  /\ ret.z = Untouched

\* ChannelsIntersect has returned what WireIDsIntersect gives for the first
\* wire of each channel
AsFirstWiresIntersect ==
  LET first == WireIDsIntersect(fGeoData, args[1][1], args[2][1])
  IN  IF first.threw THEN ret.threw
      ELSE /\ ~ret.threw
           /\ ret.result = first.result
           /\ ret.y = first.y
           /\ ret.z = first.z

\* C24: when a channel passed to ChannelsIntersect(c1, c2, y, z) maps to more
\* than one wire, the first wire of that channel is used: the call returns the
\* result, and sets y and z to the coordinates, of WireIDsIntersect applied to
\* the first wire of c1 and the first wire of c2.  Only a channel that maps to
\* no wire makes the call fail without consulting WireIDsIntersect.
C24_FirstWireOfEachChannel ==
  op = "ChannelsIntersect"
  => IF args[1] = <<>> \/ args[2] = <<>> THEN FailedUntouched
     ELSE AsFirstWiresIntersect

\* what the code does: WireIDsIntersect is consulted only when each channel
\* maps to exactly one wire
C24_OnlySingleWireChannels ==
  op = "ChannelsIntersect"
  => IF Len(args[1]) = 1 /\ Len(args[2]) = 1 THEN AsFirstWiresIntersect
     ELSE FailedUntouched

\* a channel of two wires was given, whose first wire crosses the wire of the
\* other channel
C24_TwoWireChannel ==
  /\ op = "ChannelsIntersect"
  /\ Len(args[1]) = 2
  /\ Len(args[2]) = 1
  /\ ~WireIDsIntersect(fGeoData, args[1][1], args[2][1]).threw
  /\ WireIDsIntersect(fGeoData, args[1][1], args[2][1]).result
  /\ FailedUntouched

----------------------------------------------------------------------------
(* Properties of ROOTGeoNodeForwardIterator.                               *)

\* the node is start or a descendant of start
RECURSIVE IsUnder(_, _, _)
IsUnder(tree, node, start) ==
  IF node = nullptr THEN FALSE
  ELSE IF node = start THEN TRUE
  ELSE IsUnder(tree, tree[node], start)

\* the nodes of the subtree of start
SubtreeOf(tree, start) == {node \in NodesOf(tree) : IsUnder(tree, node, start)}

\* the path goes from start down to its last node, daughter by daughter
IsPathFrom(tree, start, path) ==
  /\ path # <<>>
  /\ path[1] = start
  /\ \A i \in 2..Len(path) : tree[path[i]] = path[i - 1]

\* the node each examined path ends at
ExaminedNode(i) == examined[i][Len(examined[i])]

\* an iterator is being dereferenced and incremented
Iterating == op = "ROOTGeoNodeForwardIterator"

\* the iterator yields nullptr
YieldsNull == Dereference(current_path) = nullptr

\* no node was examined twice, every one is of the subtree of the start node
\* with its path from the start node, and an iterator that yields nullptr has
\* examined them all and stays null when incremented
EachNodeOnce ==
  Iterating =>
    /\ \A i \in 1..Len(examined) :
         /\ ExaminedNode(i) \in SubtreeOf(nodes, args[1])
         /\ IsPathFrom(nodes, args[1], examined[i])
         /\ \A j \in 1..Len(examined) : ExaminedNode(i) = ExaminedNode(j) => i = j
    /\ YieldsNull =>
         /\ {ExaminedNode(i) : i \in 1..Len(examined)} = SubtreeOf(nodes, args[1])
         /\ current_path = <<>>
         /\ Increment(nodes, current_path) = <<>>
    /\ "value" \in DOMAIN ret => ret.value = nullptr

\* C28: starting from any node of a finite tree, dereferencing and
\* incrementing a ROOTGeoNodeForwardIterator yields every node of that subtree
\* exactly once, then null after finitely many increments, and it stays null
\* when incremented further; so the loops of FindAllVolumes and
\* FindAllVolumePaths end, having examined each node exactly once.
C28_EachNodeOnceThenNull == []EachNodeOnce /\ (Iterating ~> YieldsNull)

\* an iterator started below the top node, on a node with several
\* descendants, has yielded them all and was incremented after it yielded null
C28_Witness ==
  /\ Iterating
  /\ args[1] \notin {nullptr, 1}
  /\ YieldsNull
  /\ Len(examined) >= 3
  /\ \E i \in 1..Len(examined) : Len(examined[i]) >= 3
  /\ \E node \in NodesOf(nodes) : GetNdaughters(nodes, node) >= 2 /\ IsUnder(nodes, node, args[1])
  /\ "value" \in DOMAIN ret

----------------------------------------------------------------------------
(* Properties of FindFirstVolume and FindDetectorEnclosure.                *)

\* the name of the node starts with the name asked for
StartsWith(nodeName, name) ==
  /\ Len(name) <= Len(nodeName)
  /\ SubSeq(nodeName, 1, Len(name)) = name

\* after is before, extended by nodes each a daughter of the one before it
ExtendedByDaughters(before, after) ==
  /\ Len(after) >= Len(before)
  /\ SubSeq(after, 1, Len(before)) = before
  /\ \A i \in (Len(before) + 1)..Len(after) : nodes[after[i]] = after[i - 1]

\* C29: FindFirstVolume(name, path), called with a non-empty path, leaves
\* path as it was when it returns false; when it returns true, path is the
\* original path extended by a chain of nodes, each a daughter of the one
\* before it, whose last node has a name starting with name.  So
\* FindDetectorEnclosure returns the empty path iff no node under the top
\* node, the top node included, has a name starting with name.
C29_PathRestoredOrExtended ==
  /\ op = "FindFirstVolume" =>
       IF ret.value
         THEN /\ ExtendedByDaughters(args[2], ret.path)
              /\ StartsWith(names[ret.path[Len(ret.path)]], args[1])
         ELSE ret.path = args[2]
  /\ op = "FindDetectorEnclosure" =>
       (ret.value = <<>> <=> \A node \in NodesOf(nodes) : ~StartsWith(names[node], args[1]))

\* FindFirstVolume found the name two levels below the last node of its path,
\* after it had gone down another daughter and back
C29_Witness ==
  /\ op = "FindFirstVolume"
  /\ ret.value
  /\ Len(ret.path) >= Len(args[2]) + 2
  /\ \E d \in DaughtersOf(nodes, args[2][Len(args[2])]) :
       /\ d < ret.path[Len(args[2]) + 1]
       /\ GetNdaughters(nodes, d) > 0

\* FindFirstVolume went through the whole subtree and returned false
C29_NotFound ==
  /\ op = "FindFirstVolume"
  /\ ~ret.value
  /\ Cardinality(SubtreeOf(nodes, args[2][Len(args[2])])) >= 4

----------------------------------------------------------------------------
(* Properties of OpDetFromCryo and OpDetGeoFromOpDet called from several   *)
(* threads.                                                                *)

\* the statics of either function before its first call
StaticsAtStart == [Loaded |-> FALSE, LowestID |-> <<>>, NCryo |-> 0]

\* the statics OpDetFromCryo can find when one caller makes its calls one
\* after the other: as the program starts with them, or as a first call left
\* them
OneCallerStatics ==
  {StaticsAtStart} \cup
  {LET first == OpDetFromCryo(fGeoData, call[2][1], call[2][2], FALSE, <<>>, 0)
   IN  [Loaded |-> first.Loaded, LowestID |-> first.LowestID, NCryo |-> first.NCryo] :
     call \in {k \in ThreadCalls : k[1] = "OpDetFromCryo"}}

\* the results the call of a thread has when it is run alone
ResultsAlone(t) ==
  IF threads[t].fn = "OpDetFromCryo"
    THEN {OpDetFromCryo(fGeoData, threads[t].a[1], threads[t].a[2],
                        s.Loaded, s.LowestID, s.NCryo).ret : s \in OneCallerStatics}
    ELSE {OpDetGeoFromOpDet(fGeoData, threads[t].a[1], StaticsAtStart).ret}

\* the thread is in the statements that fill the table, past Loaded = true
IsFilling(t) == threads[t].pc \in {"NCryo = Ncryostats()", "LowestID.resize", "fill"}

\* thread t reads the table that thread u has flagged as loaded and is still
\* filling
ReadsWhileFilled(t, u) ==
  /\ t # u
  /\ threads[t].fn = threads[u].fn
  /\ threads[t].pc = "lookup"
  /\ threads[t].skipped
  /\ IsFilling(u)

\* C21: once the hierarchy is built and sorted, const queries issued from
\* several threads at the same time, OpDetFromCryo and OpDetGeoFromOpDet with
\* their lookup tables filled on first use included, each return the same
\* result as when run alone: under no interleaving does a thread read a
\* lookup table that another thread has flagged as loaded but not yet
\* finished filling.
C21_ConcurrentAsAlone ==
  \A t \in Threads :
    /\ threads[t].pc = "done" => threads[t].ret \in ResultsAlone(t)
    /\ \A u \in Threads : ~ReadsWhileFilled(t, u)

\* a thread that found Loaded set left OpDetGeoFromOpDet with the error of a
\* number out of range, for a number that has an optical detector, while the
\* thread that set Loaded was still filling the table
C21_ErrorFromUnfilledTable ==
  \E t \in Threads, u \in Threads :
    /\ t # u
    /\ threads[t].fn = "OpDetGeoFromOpDet"
    /\ threads[u].fn = "OpDetGeoFromOpDet"
    /\ threads[t].pc = "done"
    /\ threads[t].skipped
    /\ threads[t].ret.threw
    /\ ~OpDetGeoFromOpDet(fGeoData, threads[t].a[1], StaticsAtStart).ret.threw
    /\ IsFilling(u)

\* the same in OpDetFromCryo: the thread raised an error, or returned a
\* number, that no caller alone gets
C21_OpDetFromCryoNotAsAlone ==
  \E t \in Threads :
    /\ threads[t].fn = "OpDetFromCryo"
    /\ threads[t].pc = "done"
    /\ threads[t].skipped
    /\ threads[t].ret \notin ResultsAlone(t)

====
